---- MODULE Spec2Model ----
(***************************************************************************)
(* API gateway of the platform monorepo: token-bucket rate limiter with   *)
(* exponential backoff (services/api-gateway/ratelimit), the rate-limit   *)
(* and auth middlewares (services/api-gateway/middleware) and the public  *)
(* route matcher (services/api-gateway/routes).                           *)
(*                                                                         *)
(* Time.  Instants are whole seconds since the process started; every     *)
(* instant before the start (the zero time.Time included) is ZeroTime.    *)
(* Configured durations are whole seconds.  A time.Duration returned by   *)
(* the limiter is kept exactly, as a signed 64-bit count of nanoseconds.  *)
(* Tokens.  Bucket.Tokens is a float64; the model keeps the exact real    *)
(* value the code's formula denotes (no rounding), as a mixed-radix       *)
(* number, see Tokens below.                                               *)
(***************************************************************************)
EXTENDS Integers, Sequences, FiniteSets, TLC

(***************************************************************************)
(* Bounds of the model.                                                    *)
(***************************************************************************)
ShortSpan == 1            \* seconds the clock advances one by one after a jump
MaxJumps == 1             \* jumps of one hour the clock makes
MaxCalls == 3              \* calls made on the limiter in one behaviour
MaxServed == 2            \* requests the gateway serves in one behaviour
MaxTrip == 6              \* requests sent to a gateway with the README's limits
MaxViolations == 2        \* violations of an offender at the start of a behaviour
MaxLater == 2             \* calls made on the limiter once a key is an offender
MaxRequests == 2          \* largest policy.Requests drawn at Init
MaxBurst == 1             \* largest policy.BurstSize drawn at Init
MaxWindow == 2            \* largest policy.Window (seconds) drawn at Init

Goroutines == {"g1", "g2"}
NoOne == "none"

(***************************************************************************)
(* Program constants.                                                      *)
(***************************************************************************)
NanosPerSecond == 1000000000   \* time.Second, in time.Duration units
CleanupInterval == 300         \* NewStore(5 * time.Minute)
Expiry == 3600                 \* expiry := 1 * time.Hour
ZeroTime == 0 - 1              \* any instant before the process started

(***************************************************************************)
(* Naturals beyond TLC's 32-bit integers:       little-endian sequences *)
(* of limbs in base 10^4, used for 64-bit nanosecond arithmetic.           *)
(***************************************************************************)
Limb == 100 * 100

RECURSIVE BigFromNat(_)
BigFromNat(n) == IF n < Limb THEN <<n>> ELSE <<n % Limb>> \o BigFromNat(n \div Limb)

RECURSIVE BigTrim(_)
BigTrim(a) ==
    IF Len(a) > 1 /\ a[Len(a)] = 0 THEN BigTrim(SubSeq(a, 1, Len(a) - 1)) ELSE a

RECURSIVE BigMulCarry(_, _, _)
BigMulCarry(a, m, carry) ==
    IF a = <<>> THEN (IF carry = 0 THEN <<>> ELSE BigFromNat(carry))
    ELSE LET p == Head(a) * m + carry
         IN  <<p % Limb>> \o BigMulCarry(Tail(a), m, p \div Limb)

\* a * m for a small m (m <= 100000)
BigMulSmall(a, m) == BigTrim(BigMulCarry(a, m, 0))

RECURSIVE BigDivRem(_, _, _)
\* quotient limbs (little-endian) of a by a small m, scanning from the top limb
BigDivRem(a, m, rem) ==
    IF a = <<>> THEN <<>>
    ELSE LET cur == rem * Limb + a[Len(a)]
         IN  BigDivRem(SubSeq(a, 1, Len(a) - 1), m, cur % m) \o <<cur \div m>>

\* floor(a / m) for a small m (1 <= m <= 100000)
BigDivSmall(a, m) == BigTrim(BigDivRem(a, m, 0))

\* a * Limb^k
BigShift(a, k) == BigTrim([i \in 1..k |-> 0] \o a)

RECURSIVE BigLessFrom(_, _, _)
BigLessFrom(a, b, i) ==
    IF i = 0 THEN FALSE
    ELSE IF a[i] # b[i] THEN a[i] < b[i]
    ELSE BigLessFrom(a, b, i - 1)

\* a < b, both trimmed
BigLess(a, b) ==
    IF Len(a) # Len(b) THEN Len(a) < Len(b) ELSE BigLessFrom(a, b, Len(a))

RECURSIVE BigSubBorrow(_, _, _)
BigSubBorrow(a, b, borrow) ==
    IF a = <<>> THEN <<>>
    ELSE LET bi == IF b = <<>> THEN 0 ELSE Head(b)
             d  == Head(a) - bi - borrow
         IN  <<IF d < 0 THEN d + Limb ELSE d>>
             \o BigSubBorrow(Tail(a), IF b = <<>> THEN <<>> ELSE Tail(b),
                             IF d < 0 THEN 1 ELSE 0)

\* a - b for a >= b
BigSub(a, b) == BigTrim(BigSubBorrow(a, b, 0))

BigZero == <<0>>
Two63 == <<5808, 5477, 368, 3372, 922>>       \* 2^63 = 9223372036854775808
Two64 == <<1616, 955, 737, 6744, 1844>>       \* 2^64 = 18446744073709551616
(***************************************************************************)
(* time.Duration: a signed 64-bit count of nanoseconds, [neg, mag].        *)
(***************************************************************************)
DurZero == [neg |-> FALSE, mag |-> BigZero]
DurSeconds(s) == [neg |-> FALSE, mag |-> BigShift(BigMulSmall(BigFromNat(s), 10), 2)]
DurIsZero(d) == d.mag = BigZero
DurIsNegative(d) == d.neg /\ d.mag # BigZero
DurIsPositive(d) == ~d.neg /\ d.mag # BigZero

RECURSIVE BigMod64(_)
BigMod64(a) == IF BigLess(a, Two64) THEN a ELSE BigMod64(BigSub(a, Two64))

\* the int64 that a non-negative product wraps to (two's complement)
WrapInt64(a) ==
    LET m == BigMod64(a)
    IN  IF BigLess(m, Two63) THEN [neg |-> FALSE, mag |-> m]
        ELSE [neg |-> TRUE, mag |-> BigSub(Two64, m)]

RECURSIVE BigToNat(_)
\* the value of a small big number (below 2^31)
BigToNat(a) == IF a = <<>> THEN 0 ELSE Head(a) + Limb * BigToNat(Tail(a))

\* floor(|d| / 10^9): whole seconds of a duration's magnitude, as a big number
DurMagSeconds(d) == BigDivSmall(BigDivSmall(d.mag, 10000), 100000)

\* time.Time.Add on the model's instants: whole seconds, and every instant
\* before the start is ZeroTime (a result between two seconds is floored)
TimeAdd(now, d) ==
    LET s     == DurMagSeconds(d)
        exact == d.mag = BigShift(BigMulSmall(s, 10), 2)
    IN  IF ~d.neg THEN now + BigToNat(s)
        ELSE IF BigLess(BigFromNat(now), s) \/ (~exact /\ BigFromNat(now) = s)
             THEN ZeroTime
             ELSE now - BigToNat(s) - (IF exact THEN 0 ELSE 1)

\* time.Time.Sub for two instants of the model, a <= b: b - a
TimeSub(b, a) == DurSeconds(b - a)

(***************************************************************************)
(* Bucket.Tokens.  For a limiter with Window = W seconds the value is     *)
(*     whole + nano / 10^9 + sub / (W * 10^9)                              *)
(* with 0 <= nano < 10^9 and 0 <= sub < W: one unit of sub is what the    *)
(* code adds per request-second, 1 / float64(Window).                      *)
(***************************************************************************)
TokensOf(n) == [whole |-> n, nano |-> 0, sub |-> 0]

\* t + n / (W * 10^9)
TokensAdd(t, n, W) ==
    LET s  == t.sub + n
        nn == t.nano + (s \div W)
    IN  [whole |-> t.whole + (nn \div NanosPerSecond),
         nano  |-> nn % NanosPerSecond,
         sub   |-> s % W]

\* math.Min(t, float64(max)) for an integer max
TokensMin(t, max) == IF t.whole >= max THEN TokensOf(max) ELSE t

\* bucket.Tokens -= 1.0
TakeTokenMutantFree(t) == t
TakeToken(t) == [t EXCEPT !.whole = @ - 1]

\* t <= u
TokensLeq(t, u) ==
    \/ t.whole < u.whole
    \/ t.whole = u.whole /\ t.nano < u.nano
    \/ t.whole = u.whole /\ t.nano = u.nano /\ t.sub <= u.sub

(***************************************************************************)
(* ratelimit.Config, ratelimit.BackoffConfig                               *)
(***************************************************************************)
Policy(r, w, b) == [Requests |-> r, Window |-> w, BurstSize |-> b]

NilBackoff == [present |-> FALSE, Enabled |-> FALSE,
               BaseDuration |-> 0, MaxDuration |-> 0, Multiplier |-> 0]
Backoff(base, max, mult) == [present |-> TRUE, Enabled |-> TRUE,
               BaseDuration |-> base, MaxDuration |-> max, Multiplier |-> mult]

\* l.backoffConfig != nil && l.backoffConfig.Enabled
BackoffOn(bc) == bc.present /\ bc.Enabled

RECURSIVE BigPow(_, _, _)
\* a * m^e
BigPow(a, m, e) == IF e = 0 THEN a ELSE BigPow(BigMulSmall(a, m), m, e - 1)

\* float64(BaseDuration) * math.Pow(multiplier, violations-1), in nanoseconds
BackoffProductMutantExponent(bc, violations) ==
    BigPow(DurSeconds(bc.BaseDuration).mag, bc.Multiplier, violations)
BackoffProduct(bc, violations) ==
    BigPow(DurSeconds(bc.BaseDuration).mag, bc.Multiplier, violations - 1)

\* the product is within the range of int64
BackoffFits(bc, violations) == BigLess(BackoffProduct(bc, violations), Two63)

\* calculateBackoff: the durations the call can return.  Converting a float64
\* beyond the int64 range to time.Duration is implementation-dependent: the
\* result is the minimum int64 (amd64) or the maximum int64 (arm64), and the
\* latter is then capped at MaxDuration.
calculateBackoff(bc, violations) ==
    IF ~BackoffOn(bc) \/ violations = 0 THEN {DurZero}
    ELSE LET p   == BackoffProduct(bc, violations)
             max == DurSeconds(bc.MaxDuration)
         IN  IF BigLess(p, Two63)
             THEN {IF BigLess(max.mag, p) THEN max ELSE [neg |-> FALSE, mag |-> p]}
             ELSE {[neg |-> TRUE, mag |-> Two63], max}

\* time.Duration(tokensNeeded/refillRate) * time.Second, for tokens below 1:
\* tokensNeeded/refillRate = (1 - tokens) * Window(ns) / Requests, truncated to
\* an int64 and then multiplied by 10^9 in wrapping 64-bit arithmetic
retryAfterNoBackoff(t, cfg) ==
    LET units == BigSub(BigMulSmall(BigFromNat(NanosPerSecond - t.nano), cfg.Window),
                        BigFromNat(t.sub))
        d     == BigDivSmall(units, cfg.Requests)
    IN  WrapInt64(BigShift(BigMulSmall(d, 10), 2))

(***************************************************************************)
(* Strings.  A Go string is a sequence of symbols: the separators "/", ":", *)
(* ",", " ", the marks "*" and ".", and words (runs of other characters).  *)
(***************************************************************************)
EmptyString == <<>>

\* strings.Contains(s, c) for a one-symbol c
Contains(s, c) == \E i \in 1..Len(s) : s[i] = c

\* strings.Index(s, c) for a one-symbol c, counted from 1; 0 when c is not in s
Index(s, c) == IF Contains(s, c) THEN CHOOSE i \in 1..Len(s) : s[i] = c /\ ~Contains(SubSeq(s, 1, i - 1), c)
               ELSE 0

\* strings.LastIndex(s, c), counted from 1; 0 when c is not in s
LastIndex(s, c) == IF Contains(s, c) THEN CHOOSE i \in 1..Len(s) : s[i] = c /\ ~Contains(SubSeq(s, i + 1, Len(s)), c)
                   ELSE 0

RECURSIVE Split(_, _)
\* strings.Split(s, c): the pieces of s between the occurrences of c
Split(s, c) ==
    LET i == Index(s, c)
    IN  IF i = 0 THEN <<s>>
        ELSE <<SubSeq(s, 1, i - 1)>> \o Split(SubSeq(s, i + 1, Len(s)), c)

\* strings.SplitN(s, c, 2)
SplitN2(s, c) ==
    LET i == Index(s, c)
    IN  IF i = 0 THEN <<s>> ELSE <<SubSeq(s, 1, i - 1), SubSeq(s, i + 1, Len(s))>>

RECURSIVE Join(_, _)
\* strings.Join(parts, c)
Join(parts, c) ==
    IF parts = <<>> THEN EmptyString
    ELSE IF Len(parts) = 1 THEN parts[1]
    ELSE parts[1] \o <<c>> \o Join(Tail(parts), c)

RECURSIVE TrimLeft(_)
TrimLeft(s) == IF s # <<>> /\ s[1] = " " THEN TrimLeft(Tail(s)) ELSE s

RECURSIVE TrimRight(_)
TrimRight(s) == IF s # <<>> /\ s[Len(s)] = " " THEN TrimRight(SubSeq(s, 1, Len(s) - 1)) ELSE s

\* strings.TrimSpace(s)
TrimSpace(s) == TrimRight(TrimLeft(s))

\* strings.ToLower(s), on the words the requests use
LowerWord(w) == IF w \in {"Bearer", "BEARER"} THEN "bearer" ELSE w
ToLower(s) == [i \in 1..Len(s) |-> LowerWord(s[i])]

RECURSIVE CleanElements(_, _, _)
\* path.Clean's pass over the elements of a path: empty and "." elements are
\* dropped, ".." removes the element before it, is dropped at the root and is
\* kept at the start of a relative path
CleanElements(elems, out, rooted) ==
    IF elems = <<>> THEN out
    ELSE LET e    == elems[1]
             rest == Tail(elems)
         IN  IF e = <<>> \/ e = <<".">> THEN CleanElements(rest, out, rooted)
             ELSE IF e = <<".", ".">>
             THEN IF out # <<>> /\ out[Len(out)] # <<".", ".">>
                  THEN CleanElements(rest, SubSeq(out, 1, Len(out) - 1), rooted)
                  ELSE IF rooted THEN CleanElements(rest, out, rooted)
                  ELSE CleanElements(rest, Append(out, e), rooted)
             ELSE CleanElements(rest, Append(out, e), rooted)

\* path.Clean(p)
Clean(p) ==
    LET rooted == p # <<>> /\ p[1] = "/"
        out    == Join(CleanElements(Split(p, "/"), <<>>, rooted), "/")
    IN  IF rooted THEN <<"/">> \o out
        ELSE IF out = <<>> THEN <<".">> ELSE out

(***************************************************************************)
(* Path patterns (routes/routes.go, middleware/ratelimit.go)               *)
(***************************************************************************)
Star == <<"*">>

RECURSIVE RouteSegmentsMatch(_, _, _)
\* the loop of RouteMatcher.matchPattern from segment i on, and what follows it
RouteSegmentsMatch(ps, qs, i) ==
    IF i > Len(ps) THEN ps[Len(ps)] = Star \/ Len(ps) = Len(qs)
    ELSE IF ps[i] = Star
    THEN IF i = Len(ps) THEN TRUE ELSE RouteSegmentsMatch(ps, qs, i + 1)
    ELSE IF i > Len(qs) THEN FALSE
    ELSE IF ps[i] # qs[i] THEN FALSE
    ELSE RouteSegmentsMatch(ps, qs, i + 1)

\* RouteMatcher.matchPattern
RouteMatchPatternMutantGreedy(pattern, requestPath) ==
    IF pattern = requestPath THEN TRUE
    ELSE IF ~Contains(pattern, "*") THEN FALSE
    ELSE LET ps == Split(Clean(pattern), "/")
             qs == Split(Clean(requestPath), "/")
         IN  \E k \in 1..Len(ps) :
                 /\ ps[k] = Star
                 /\ \A i \in 1..(k - 1) : i <= Len(qs) /\ ps[i] = qs[i]
RouteMatchPattern(pattern, requestPath) ==
    IF pattern = requestPath THEN TRUE
    ELSE IF ~Contains(pattern, "*") THEN FALSE
    ELSE LET ps == Split(Clean(pattern), "/")
             qs == Split(Clean(requestPath), "/")
         IN  IF Len(ps) > Len(qs) THEN FALSE ELSE RouteSegmentsMatch(ps, qs, 1)

\* RouteMatcher.IsPublic
IsPublicMutantNever(publicRoutes, requestPath) == FALSE
IsPublic(publicRoutes, requestPath) ==
    \E i \in 1..Len(publicRoutes) : RouteMatchPattern(publicRoutes[i], requestPath)

RECURSIVE LimitSegmentsMatch(_, _, _)
\* the loop of RateLimitMiddleware.matchPattern from segment i on
LimitSegmentsMatch(ps, qs, i) ==
    IF i > Len(ps) THEN Len(ps) = Len(qs)
    ELSE IF ps[i] = Star THEN TRUE
    ELSE IF i > Len(qs) \/ ps[i] # qs[i] THEN FALSE
    ELSE LimitSegmentsMatch(ps, qs, i + 1)

\* RateLimitMiddleware.matchPattern
matchPattern(pattern, requestPath) ==
    IF ~Contains(pattern, "*") THEN FALSE
    ELSE LET ps == Split(Clean(pattern), "/")
             qs == Split(Clean(requestPath), "/")
         IN  IF Len(ps) > Len(qs) THEN FALSE ELSE LimitSegmentsMatch(ps, qs, 1)

\* getLimiterForPath: the limiters the call can return.  limiters is a Go map
\* and the wildcard patterns are tried in the order its iteration yields, which
\* differs from run to run: the first match may be any pattern that matches.
getLimiterForPath(limiters, defaultLimiter, requestPath) ==
    LET cleaned == Clean(requestPath)
        matching == {pat \in DOMAIN limiters : matchPattern(pat, cleaned)}
    IN  IF cleaned \in DOMAIN limiters THEN {limiters[cleaned]}
        ELSE IF matching # {} THEN {limiters[pat] : pat \in matching}
        ELSE {defaultLimiter}

\* extractClientIP
extractClientIP(r) ==
    IF r.xff # EmptyString THEN TrimSpace(Split(r.xff, ",")[1])
    ELSE IF r.xri # EmptyString THEN TrimSpace(r.xri)
    ELSE LET colon == LastIndex(r.remoteAddr, ":")
         IN  IF colon # 0 THEN SubSeq(r.remoteAddr, 1, colon - 1) ELSE r.remoteAddr

\* fmt.Sprintf("%s:%s", ip, r.URL.Path)
LimiterKey(ip, urlPath) == ip \o <<":">> \o urlPath

(***************************************************************************)
(* Tokens (middleware/auth.go, validator/jwt_validator.go)                 *)
(***************************************************************************)
\* AuthMiddleware.extractBearerToken
extractBearerTokenMutantExact(authHeader) ==
    LET parts == SplitN2(authHeader, " ")
    IN  IF Len(parts) # 2 THEN EmptyString
        ELSE IF parts[1] # <<"Bearer">> THEN EmptyString
        ELSE parts[2]
extractBearerToken(authHeader) ==
    LET parts == SplitN2(authHeader, " ")
    IN  IF Len(parts) # 2 THEN EmptyString
        ELSE IF ToLower(parts[1]) # <<"bearer">> THEN EmptyString
        ELSE parts[2]

NoExp == 0 - 2
SigningMethod == "HS256"

\* The compact JWTs of the requests, one word each, and what they decode to:
\* the alg of the header, whether the signature verifies under the gateway's
\* secret, and the claims user_id and exp (NoExp: the claim is missing).
JWT(alg, signed, user, exp) ==
    [alg |-> alg, signed |-> signed, user_id |-> user, mobile |-> "0912", exp |-> exp]
DecodeJWT ==
    [w \in {"jwt.ok", "jwt.expiring", "jwt.noexp", "jwt.nouser", "jwt.forged", "jwt.none",
             "jwt.hs512", "jwt.stale", "jwt.bare"} |->
        CASE w = "jwt.ok"       -> JWT("HS256", TRUE, "u1", 9999)
          [] w = "jwt.hs512"    -> JWT("HS512", TRUE, "u1", 9999)
          [] w = "jwt.stale"    -> JWT("HS256", TRUE, "", 1)
          [] w = "jwt.bare"     -> JWT("HS256", TRUE, "", NoExp)
          [] w = "jwt.expiring" -> JWT("HS256", TRUE, "u1", 1)
          [] w = "jwt.noexp"    -> JWT("HS256", TRUE, "u1", NoExp)
          [] w = "jwt.nouser"   -> JWT("HS256", TRUE, "", 9999)
          [] w = "jwt.forged"   -> JWT("HS256", FALSE, "u1", 9999)
          [] w = "jwt.none"     -> JWT("none", TRUE, "u1", 9999)]

\* JWTValidator.Validate at the instant now: "claims", the error returned, or
\* "panic".  jwt.ParseWithClaims rejects what is not a compact JWT, then what the
\* key function refuses, then a bad signature, then an exp that is not after now.
\* Line 121 reads claims.ExpiresAt.Time through a nil pointer when exp is missing.
ValidateMutantNoExpiry(tokenString, now) ==
    IF ~(Len(tokenString) = 1 /\ tokenString[1] \in DOMAIN DecodeJWT) THEN "ErrInvalidToken"
    ELSE LET t == DecodeJWT[tokenString[1]]
         IN  IF t.alg # SigningMethod THEN "ErrInvalidToken"
             ELSE IF ~t.signed THEN "ErrInvalidToken"
             ELSE IF t.user_id = "" THEN "ErrInvalidClaims"
             ELSE IF t.exp = NoExp THEN "panic"
             ELSE "claims"
Validate(tokenString, now) ==
    IF ~(Len(tokenString) = 1 /\ tokenString[1] \in DOMAIN DecodeJWT) THEN "ErrInvalidToken"
    ELSE LET t == DecodeJWT[tokenString[1]]
         IN  IF t.alg # SigningMethod THEN "ErrInvalidToken"
             ELSE IF ~t.signed THEN "ErrInvalidToken"
             ELSE IF t.exp # NoExp /\ ~(now < t.exp) THEN "ErrExpiredToken"
             ELSE IF t.user_id = "" THEN "ErrInvalidClaims"
             ELSE IF t.exp # NoExp /\ t.exp < now THEN "ErrExpiredToken"
             ELSE IF t.exp = NoExp THEN "panic"
             ELSE "claims"

(***************************************************************************)
(* State.                                                                  *)
(***************************************************************************)
VARIABLES
    clock,          \* time.Now(), whole seconds since the start
    calls,          \* calls and requests the callers still make
    config,         \* limiter -> ratelimit.Config (TokenBucketLimiter.config)
    backoffConfig,  \* the *BackoffConfig shared by the limiters
    store,          \* limiter -> Store.buckets: key -> Bucket
    mu,             \* limiter -> goroutine holding TokenBucketLimiter.mu for writing
    stopChan,       \* limiter -> Store.stopChan is closed
    sweeper,        \* limiter -> state of the cleanupLoop goroutine
    nextTick,       \* limiter -> instant of the ticker's next tick
    pc,             \* goroutine -> where it is
    call,           \* goroutine -> the limiter call it is in: [op, lim, key]
    held,           \* goroutine -> contents of the *Bucket it got from Store.Get
    ret,            \* goroutine -> what its last limiter call returned (and for which key)
    ledger,         \* limiter -> key -> history of the bucket now created for the key
    gw,             \* the gateway: middlewares on the router and their configuration
    request,        \* goroutine -> the HTTP request it serves
    response        \* goroutine -> what has been written and done for that request

limiterVars == <<config, backoffConfig, store, mu, stopChan, sweeper, nextTick>>
callerVars == <<pc, call, held, ret>>
gatewayVars == <<gw, request, response>>
vars == <<clock, calls, limiterVars, callerVars, ledger, gatewayVars>>

\* limiter 0 is the default limiter; the endpoint limiters follow
DefaultLimiter == 0
TestKeys == {<<"k", "1">>, <<"k", "2">>}

NoCall == [op |-> "none", lim |-> DefaultLimiter, key |-> <<>>, from |-> "api"]
NoBucket == [Tokens |-> TokensOf(0), LastRefill |-> ZeroTime, Violations |-> 0,
             LastViolation |-> ZeroTime, BackoffUntil |-> ZeroTime]
NoMetrics == [Remaining |-> 0, Total |-> 0, ResetAt |-> ZeroTime, Violations |-> 0]
NoRet == [op |-> "none", key |-> <<>>, allowed |-> FALSE, retryAfter |-> DurZero,
          metrics |-> NoMetrics]

NoStatus == 0
NoBody == [error |-> ""]
NoRequest == [path |-> EmptyString, xff |-> EmptyString, xri |-> EmptyString,
              remoteAddr |-> EmptyString, authorization |-> EmptyString, outgoing |-> <<>>,
              pos |-> 0]
NoResponse == [status |-> NoStatus, header |-> <<>>, body |-> NoBody, metadata |-> <<>>,
               trace |-> <<>>]
NoGateway == [chain |-> <<>>, rlEnabled |-> FALSE, authEnabled |-> FALSE,
              limiters |-> <<>>, publicRoutes |-> <<>>, phase |-> "none"]

(***************************************************************************)
(* Store (store.go)                                                        *)
(***************************************************************************)
\* the Bucket that Store.Get makes for a key it does not have
NewBucketMutantBurst(cfg, now) ==
    [Tokens |-> TokensOf(cfg.Requests + cfg.BurstSize), LastRefill |-> now, Violations |-> 0,
     LastViolation |-> ZeroTime, BackoffUntil |-> ZeroTime]
NewBucket(cfg, now) ==
    [Tokens |-> TokensOf(cfg.Requests), LastRefill |-> now, Violations |-> 0,
     LastViolation |-> ZeroTime, BackoffUntil |-> ZeroTime]

Has(m, k) == k \in DOMAIN m

\* the map m with m[k] = v
MapSetMutantAll(m, k, v) == [x \in DOMAIN m \cup {k} |-> v]
MapSet(m, k, v) == [x \in DOMAIN m \cup {k} |-> IF x = k THEN v ELSE m[x]]

\* delete(m, k)
MapDelete(m, ks) == [x \in DOMAIN m \ ks |-> m[x]]

\* Store.Get: the buckets after the call
StoreGet(m, k, cfg, now) == IF Has(m, k) THEN m ELSE MapSet(m, k, NewBucket(cfg, now))

\* history kept for a bucket from the moment Store.Get creates it; resetFrom is
\* the bucket that a Reset of the key deleted before, if that is how the key
\* came to have no bucket
NewLedger(now) ==
    [created |-> now, resetFrom |-> NoBucket,
     admits |-> <<>>, consecDenies |-> 0, overlap |-> FALSE,
     instAt |-> ZeroTime, instTokens |-> 0, instCalls |-> 0, instAdmits |-> 0,
     last |-> [kind |-> "none", at |-> ZeroTime, elapsed |-> 0, before |-> TokensOf(0),
               considered |-> TokensOf(0), violations |-> 0, backoffUntil |-> ZeroTime,
               retryAfter |-> DurZero, stored |-> FALSE, unchanged |-> TRUE]]

\* a history with no bucket yet: the one Reset leaves for the key's next bucket
Awaited(lg, k) == Has(lg, k) /\ lg[k].last.kind = "reset"

LedgerGet(lg, m, k, now) ==
    IF Has(m, k) THEN lg
    ELSE MapSet(lg, k, [NewLedger(now) EXCEPT
                           !.resetFrom = IF Awaited(lg, k) THEN lg[k].resetFrom ELSE NoBucket])

\* the histories when Reset deletes the bucket of k
LedgerReset(lg, m, k, now) ==
    IF Has(m, k)
    THEN MapSet(lg, k, [NewLedger(now) EXCEPT !.resetFrom = m[k], !.last.kind = "reset"])
    ELSE lg

(***************************************************************************)
(* TokenBucketLimiter (limiter.go)                                         *)
(***************************************************************************)
\* l.mu.Lock() can be taken
LockFreeMutantNoLock(l) == TRUE
LockFree(l) == mu[l] = NoOne

\* now.Before(bucket.BackoffUntil) under an enabled backoff (limiter.go:42)
InBackoffMutantViolation(bc, b, now) == BackoffOn(bc) /\ now < b.LastViolation
InBackoff(bc, b, now) == BackoffOn(bc) /\ now < b.BackoffUntil

\* bucket.Tokens >= 1.0 (limiter.go:59)
HasTokenMutantZero(t) == t.whole >= 0
HasToken(t) == t.whole >= 1

\* tokens after the refill of limiter.go:48-55
RefillMutantPerSecond(b, cfg, now) ==
    TokensMin([b.Tokens EXCEPT !.whole = @ + (cfg.Requests * (now - b.LastRefill)) \div cfg.Window],
              cfg.Requests + cfg.BurstSize)
Refill(b, cfg, now) ==
    TokensMin(TokensAdd(b.Tokens, cfg.Requests * (now - b.LastRefill), cfg.Window),
              cfg.Requests + cfg.BurstSize)

\* bucket.Violations++; bucket.LastViolation = now (limiter.go:66-67)
RecordViolationMutantFirst(b, now) == [b EXCEPT !.Violations = 1, !.LastViolation = now]
RecordViolation(b, now) == [b EXCEPT !.Violations = @ + 1, !.LastViolation = now]

\* Allow from the bucket b it got at the instant now: everything the call can
\* return, with the bucket's contents afterwards and whether Store.Set was called
AllowOutcomes(b, cfg, bc, now) ==
    IF InBackoff(bc, b, now)
    THEN {[allowed |-> FALSE, retryAfter |-> TimeSub(b.BackoffUntil, now), bucket |-> b,
           stored |-> FALSE, kind |-> "backoff", considered |-> b.Tokens]}
    ELSE LET t == Refill(b, cfg, now)
             refilled == [b EXCEPT !.Tokens = t, !.LastRefill = now]
             violated == RecordViolation(refilled, now)
         IN  IF HasToken(t)
             THEN {[allowed |-> TRUE, retryAfter |-> DurZero,
                    bucket |-> [refilled EXCEPT !.Tokens = TakeToken(t)],
                    stored |-> TRUE, kind |-> "admit", considered |-> t]}
             ELSE IF BackoffOn(bc)
             THEN {[allowed |-> FALSE, retryAfter |-> backoff,
                    bucket |-> [violated EXCEPT !.BackoffUntil = TimeAdd(now, backoff)],
                    stored |-> TRUE, kind |-> "violation", considered |-> t]
                   : backoff \in calculateBackoff(bc, violated.Violations)}
             ELSE {[allowed |-> FALSE, retryAfter |-> retryAfterNoBackoff(t, cfg),
                    bucket |-> violated,
                    stored |-> TRUE, kind |-> "violation", considered |-> t]}

\* the bucket's history after a decision o taken at now from the contents b
LedgerAfter(lg, o, b, now) ==
    LET same == lg.instAt = now
        one  == IF o.allowed THEN 1 ELSE 0
    IN  [lg EXCEPT
           !.admits = IF o.allowed THEN Append(@, now) ELSE @,
           !.consecDenies = IF o.allowed THEN 0 ELSE @ + 1,
           !.instAt = now,
           !.instTokens = IF same THEN @ ELSE IF o.kind = "backoff" THEN 0 ELSE o.considered.whole,
           !.instCalls = IF same THEN @ + 1 ELSE 1,
           !.instAdmits = IF same THEN @ + one ELSE one,
           !.last = [kind |-> o.kind, at |-> now,
                     elapsed |-> IF o.kind = "backoff" THEN 0 ELSE now - b.LastRefill,
                     before |-> b.Tokens, considered |-> o.considered,
                     violations |-> o.bucket.Violations,
                     backoffUntil |-> o.bucket.BackoffUntil,
                     retryAfter |-> o.retryAfter, stored |-> o.stored,
                     unchanged |-> o.bucket = b]]

\* limiter.go:35-38: l.mu.Lock(), then Store.Get hands out the key's bucket
AllowLock(g) ==
    LET l == call[g].lim
        k == call[g].key
    IN  /\ pc[g] = "lock"
        /\ LockFree(l)
        /\ mu' = [mu EXCEPT ![l] = g]
        /\ store' = [store EXCEPT ![l] = StoreGet(@, k, config[l], clock)]
        /\ ledger' = [ledger EXCEPT ![l] =
                         [LedgerGet(@, store[l], k, clock) EXCEPT ![k].overlap =
                              @ \/ \E h \in Goroutines \ {g} :
                                       /\ pc[h] \in {"lock", "allow"}
                                       /\ call[h].lim = l /\ call[h].key = k]]
        /\ held' = [held EXCEPT ![g] = store'[l][k]]
        /\ pc' = [pc EXCEPT ![g] = "allow"]
        /\ UNCHANGED <<gatewayVars, clock, calls, config, backoffConfig, stopChan, sweeper, nextTick,
                       call, ret>>

\* limiter.go:39-83: the decision, the writes to the bucket, Store.Set and the
\* deferred l.mu.Unlock()
AllowBody(g) ==
    LET l == call[g].lim
        k == call[g].key
        b == held[g]
    IN  /\ pc[g] = "allow"
        /\ \E o \in AllowOutcomes(b, config[l], backoffConfig, clock) :
              /\ store' = IF o.stored THEN [store EXCEPT ![l] = MapSet(@, k, o.bucket)]
                          ELSE store
              /\ ledger' = [ledger EXCEPT ![l][k] = LedgerAfter(@, o, b, clock)]
              /\ ret' = [ret EXCEPT ![g] =
                            [NoRet EXCEPT !.op = "Allow", !.allowed = o.allowed,
                                          !.retryAfter = o.retryAfter]]
        /\ mu' = [mu EXCEPT ![l] = NoOne]
        /\ held' = [held EXCEPT ![g] = NoBucket]
        /\ pc' = [pc EXCEPT ![g] = IF call[g].from = "api" THEN "idle" ELSE "limited"]
        /\ call' = [call EXCEPT ![g] = IF call[g].from = "api" THEN NoCall ELSE @]
        /\ UNCHANGED <<gatewayVars, clock, calls, config, backoffConfig, stopChan, sweeper, nextTick>>

\* GetMetrics (limiter.go:112-127) of limiter l for key k at now: the metrics
MetricsMutantFull(b, cfg) ==
    [Remaining |-> cfg.Requests, Total |-> cfg.Requests,
     ResetAt |-> b.LastRefill + cfg.Window, Violations |-> b.Violations]
Metrics(b, cfg) ==
    [Remaining |-> b.Tokens.whole, Total |-> cfg.Requests,
     ResetAt |-> b.LastRefill + cfg.Window, Violations |-> b.Violations]

\* l.mu.RLock() can be taken: no writer holds the lock
RLockFree(l) == mu[l] = NoOne

\* Reset (limiter.go:105-109)
ResetStoreMutantKeep(m, k) == m
ResetStore(m, k) == MapDelete(m, {k})

(***************************************************************************)
(* Calls made on one limiter directly, as its tests make them.  Goroutines *)
(* and keys are interchangeable: the free goroutine that takes a call is   *)
(* g1 when g1 is free, and the first key ever used is the first test key.  *)
(***************************************************************************)
TakesCall(g) ==
    /\ pc[g] = "idle"
    /\ g = "g2" => pc["g1"] # "idle"

UsesKey(l, k) == k = <<"k", "2">> => Has(ledger[l], <<"k", "1">>)

CallAllow(g, k) ==
    /\ TakesCall(g)
    /\ UsesKey(DefaultLimiter, k)
    /\ calls > 0
    /\ calls' = calls - 1
    /\ call' = [call EXCEPT ![g] = [op |-> "Allow", lim |-> DefaultLimiter, key |-> k,
                                    from |-> "api"]]
    /\ pc' = [pc EXCEPT ![g] = "lock"]
    /\ UNCHANGED <<gatewayVars, clock, limiterVars, held, ret, ledger>>

CallGetMetrics(g, k) ==
    LET l == DefaultLimiter
    IN  /\ TakesCall(g)
        /\ UsesKey(l, k)
        /\ calls > 0
        /\ RLockFree(l)
        /\ calls' = calls - 1
        /\ store' = [store EXCEPT ![l] = StoreGet(@, k, config[l], clock)]
        /\ ledger' = [ledger EXCEPT ![l] = LedgerGet(@, store[l], k, clock)]
        /\ ret' = [ret EXCEPT ![g] =
                      [NoRet EXCEPT !.op = "GetMetrics", !.key = k,
                                    !.metrics = Metrics(store'[l][k], config[l])]]
        /\ UNCHANGED <<gatewayVars, clock, config, backoffConfig, mu, stopChan, sweeper, nextTick,
                       pc, call, held>>

CallReset(g, k) ==
    LET l == DefaultLimiter
    IN  /\ TakesCall(g)
        /\ UsesKey(l, k)
        /\ calls > 0
        /\ LockFree(l)
        /\ calls' = calls - 1
        /\ store' = [store EXCEPT ![l] = ResetStore(@, k)]
        /\ ledger' = [ledger EXCEPT ![l] = LedgerReset(@, store[l], k, clock)]
        /\ ret' = [ret EXCEPT ![g] = [NoRet EXCEPT !.op = "Reset"]]
        /\ UNCHANGED <<gatewayVars, clock, config, backoffConfig, mu, stopChan, sweeper, nextTick,
                       pc, call, held>>

(***************************************************************************)
(* The sweeper: Store.cleanupLoop and its ticker (store.go:71-103)         *)
(***************************************************************************)
\* keys whose bucket cleanupExpired finds expired (store.go:94)
ExpiredKeys(m, now) == {k \in DOMAIN m : now - m[k].LastRefill > Expiry}

\* keys whose bucket an Allow in progress may be writing: cleanupExpired reads
\* LastRefill under Store.mu only, Allow writes it under TokenBucketLimiter.mu only
RacingKeys(l) ==
    {k \in DOMAIN store[l] : \E g \in Goroutines :
         pc[g] = "allow" /\ call[g].lim = l /\ call[g].key = k}

\* case <-ticker.C: s.cleanupExpired(), at or after the instant the tick was due;
\* the ticks a late receiver missed are dropped.  A racing read of LastRefill can
\* give any value, so a bucket being written is removed or kept.
cleanupExpired(l) ==
    /\ sweeper[l] = "running"
    /\ clock >= nextTick[l]
    /\ nextTick' = [nextTick EXCEPT ![l] =
                         @ + (((clock - @) \div CleanupInterval) + 1) * CleanupInterval]
    /\ \E torn \in SUBSET RacingKeys(l) :
          store' = [store EXCEPT ![l] =
                       MapDelete(@, (ExpiredKeys(@, clock) \ RacingKeys(l)) \cup torn)]
    /\ UNCHANGED <<gatewayVars, clock, calls, config, backoffConfig, mu, stopChan, sweeper,
                   callerVars, ledger>>

\* Store.Stop: close(s.stopChan)
Stop(l) ==
    /\ ~stopChan[l]
    /\ calls > 0
    /\ calls' = calls - 1
    /\ stopChan' = [stopChan EXCEPT ![l] = TRUE]
    /\ UNCHANGED <<gatewayVars, clock, config, backoffConfig, store, mu, sweeper, nextTick,
                   callerVars, ledger>>

\* case <-s.stopChan: return, with the deferred ticker.Stop()
SweeperExitMutantIgnore(l) ==
    /\ sweeper[l] = "running"
    /\ stopChan[l]
    /\ UNCHANGED vars
SweeperExit(l) ==
    /\ sweeper[l] = "running"
    /\ stopChan[l]
    /\ sweeper' = [sweeper EXCEPT ![l] = "exited"]
    /\ UNCHANGED <<gatewayVars, clock, calls, config, backoffConfig, store, mu, stopChan, nextTick,
                   callerVars, ledger>>

(***************************************************************************)
(* The clock: it advances by a second, or by an hour.                      *)
(***************************************************************************)
MaxClock == MaxJumps * Expiry + ShortSpan

Tick ==
    /\ \E d \in {1, Expiry} :
          /\ d = 1 => (clock % Expiry) < ShortSpan
          /\ clock + d <= MaxClock
          /\ clock' = clock + d
    /\ UNCHANGED <<gatewayVars, calls, limiterVars, callerVars, ledger>>

(***************************************************************************)
(* One limiter called directly by concurrent goroutines.                   *)
(***************************************************************************)
Policies ==
    {Policy(r, w, b) : r \in 1..MaxRequests, w \in 1..MaxWindow, b \in 0..MaxBurst}

\* limiter_test.go:44-49 and a limiter made without backoff (limiter_test.go:15)
BackoffConfigs == {NilBackoff, Backoff(2, 10, 2)}

EmptyMap == [x \in {} |-> NoBucket]

InitLimiter ==
    /\ clock = 0
    /\ calls = MaxCalls
    /\ \E p \in Policies : config = [l \in {DefaultLimiter} |-> p]
    /\ backoffConfig \in BackoffConfigs
    /\ store = [l \in {DefaultLimiter} |-> EmptyMap]
    /\ ledger = [l \in {DefaultLimiter} |-> EmptyMap]
    /\ mu = [l \in {DefaultLimiter} |-> NoOne]
    /\ stopChan = [l \in {DefaultLimiter} |-> FALSE]
    /\ sweeper = [l \in {DefaultLimiter} |-> "running"]
    /\ nextTick = [l \in {DefaultLimiter} |-> CleanupInterval]
    /\ pc = [g \in Goroutines |-> "idle"]
    /\ call = [g \in Goroutines |-> NoCall]
    /\ held = [g \in Goroutines |-> NoBucket]
    /\ ret = [g \in Goroutines |-> NoRet]
    /\ gw = NoGateway
    /\ request = [g \in Goroutines |-> NoRequest]
    /\ response = [g \in Goroutines |-> NoResponse]

NextLimiter ==
    \/ \E g \in Goroutines, k \in TestKeys : CallAllow(g, k)
    \/ \E g \in Goroutines, k \in TestKeys : CallGetMetrics(g, k)
    \/ \E g \in Goroutines, k \in TestKeys : CallReset(g, k)
    \/ \E g \in Goroutines : AllowLock(g)
    \/ \E g \in Goroutines : AllowBody(g)
    \/ cleanupExpired(DefaultLimiter)
    \/ Tick

SpecLimiter == InitLimiter /\ [][NextLimiter]_vars

(***************************************************************************)
(* A limiter that is stopped while it is in use.  The sweeper goroutine is *)
(* scheduled fairly: once stopChan is closed its select always has that    *)
(* case ready, ticks come five minutes apart, so it takes it eventually.   *)
(***************************************************************************)
InitStop ==
    /\ clock = 0
    /\ calls = MaxLater
    /\ config = [l \in {DefaultLimiter} |-> Policy(1, 1, 0)]
    /\ backoffConfig = NilBackoff
    /\ store = [l \in {DefaultLimiter} |-> EmptyMap]
    /\ ledger = [l \in {DefaultLimiter} |-> EmptyMap]
    /\ mu = [l \in {DefaultLimiter} |-> NoOne]
    /\ stopChan = [l \in {DefaultLimiter} |-> FALSE]
    /\ sweeper = [l \in {DefaultLimiter} |-> "running"]
    /\ nextTick = [l \in {DefaultLimiter} |-> CleanupInterval]
    /\ pc = [g \in Goroutines |-> "idle"]
    /\ call = [g \in Goroutines |-> NoCall]
    /\ held = [g \in Goroutines |-> NoBucket]
    /\ ret = [g \in Goroutines |-> NoRet]
    /\ gw = NoGateway
    /\ request = [g \in Goroutines |-> NoRequest]
    /\ response = [g \in Goroutines |-> NoResponse]

NextStop ==
    \/ NextLimiter
    \/ Stop(DefaultLimiter)
    \/ SweeperExit(DefaultLimiter)

SpecStop == InitStop /\ [][NextStop]_vars /\ WF_vars(SweeperExit(DefaultLimiter))

(***************************************************************************)
(* The gateway: the router's middlewares and the translator                *)
(* (middleware/ratelimit.go, middleware/auth.go, initializer)              *)
(***************************************************************************)
\* the order of the Engine.Use calls of OnStart
MiddlewareOrderMutantAuthFirst == <<"auth", "ratelimit">>
MiddlewareOrder == <<"ratelimit", "auth">>

\* the middlewares OnStart puts on the router
Chain(attached) == SelectSeq(MiddlewareOrder, LAMBDA m : m \in attached)

\* fmt.Sprintf("%.0f", d.Seconds()): the seconds rounded to the nearest whole
\* number, a half to the even one, with the sign of d
RoundSeconds(d) ==
    LET q    == DurMagSeconds(d)
        r    == BigToNat(BigSub(d.mag, BigShift(BigMulSmall(q, 10), 2)))
        half == NanosPerSecond \div 2
        up   == r > half \/ (r = half /\ q[1] % 2 = 1)
    IN  [neg |-> d.neg, mag |-> IF up THEN BigTrim(BigMulCarry(q, 1, 1)) ELSE q]

Traced(rs, events) == [rs EXCEPT !.trace = @ \o events]

\* http.Error(w, body, code)
HttpError(rs, body, code) == [rs EXCEPT !.status = code, !.body = body]

\* the handler the router matched: the translator forwards to the backend; it
\* has no route, and answers 404, until the backends' handlers are registered
Handler(rs) ==
    [Traced(rs, <<"handler">>) EXCEPT !.status = IF gw.phase = "listening" THEN 404 ELSE 200]

\* the body of the 401 for an error of the validator (auth.go:84-90)
ValidationFailedMutantCollapsed(v) == [error |-> "invalid token"]
ValidationFailed(v) ==
    IF v = "ErrExpiredToken" THEN [error |-> "token has expired"]
    ELSE IF v = "ErrInvalidClaims" THEN [error |-> "invalid token claims"]
    ELSE [error |-> "invalid token"]

\* forwardClaims: metadata.Join(existing, Pairs(user-id, user-mobile)) when the
\* context has outgoing metadata, the pairs alone when it has none.  Metadata
\* is a map from key to the list of its values; Join appends per key.
forwardClaimsMutantReplace(existingMd, claims) ==
    [k \in {"user-id", "user-mobile"} |->
        IF k = "user-id" THEN <<claims.user_id>> ELSE <<claims.mobile>>]
forwardClaims(existingMd, claims) ==
    LET md == [k \in {"user-id", "user-mobile"} |->
                  IF k = "user-id" THEN <<claims.user_id>> ELSE <<claims.mobile>>]
    IN  [k \in DOMAIN existingMd \cup DOMAIN md |->
            (IF k \in DOMAIN existingMd THEN existingMd[k] ELSE <<>>)
            \o (IF k \in DOMAIN md THEN md[k] ELSE <<>>)]

\* AuthMiddleware.Middleware up to its call of next or its return
AuthMiddleware(rq, rs, now) ==
    IF ~gw.authEnabled THEN [next |-> TRUE, response |-> Traced(rs, <<"auth.next">>)]
    ELSE IF IsPublic(gw.publicRoutes, rq.path)
    THEN [next |-> TRUE, response |-> Traced(rs, <<"auth", "auth.next">>)]
    ELSE IF rq.authorization = EmptyString
    THEN [next |-> FALSE,
          response |-> HttpError(Traced(rs, <<"auth">>),
                                 [error |-> "missing authorization header"], 401)]
    ELSE LET token == extractBearerToken(rq.authorization)
             v     == Validate(token, now)
             rv    == Traced(rs, <<"auth", "Validate">>)
         IN  IF token = EmptyString
             THEN [next |-> FALSE,
                   response |-> HttpError(Traced(rs, <<"auth">>),
                                   [error |-> "invalid authorization header format"], 401)]
             ELSE IF v = "panic"
             THEN [next |-> FALSE, response |-> Traced(rv, <<"panic">>)]
             ELSE IF v # "claims"
             THEN [next |-> FALSE, response |-> HttpError(rv, ValidationFailed(v), 401)]
             ELSE [next |-> TRUE,
                   response |-> [Traced(rv, <<"claims", "auth.next">>) EXCEPT !.metadata =
                                    forwardClaims(@, DecodeJWT[token[1]])]]

RECURSIVE Serve(_, _, _)
\* The request rq from position pos of the chain on, up to the point where it
\* ends or waits for a limiter: where the goroutine is then, the limiter call it
\* makes, and what it has written.
Serve(pos, rq, rs) ==
    IF pos > Len(gw.chain)
    THEN {[pc |-> "idle", pos |-> pos, call |-> NoCall, response |-> Handler(rs)]}
    ELSE IF gw.chain[pos] = "ratelimit"
    THEN IF ~gw.rlEnabled THEN Serve(pos + 1, rq, Traced(rs, <<"ratelimit.next">>))
         ELSE {[pc |-> "lock", pos |-> pos,
                call |-> [op |-> "Allow", lim |-> l,
                          key |-> LimiterKey(extractClientIP(rq), rq.path), from |-> "mw"],
                response |-> Traced(rs, <<"ratelimit">>)]
               : l \in getLimiterForPath(gw.limiters, DefaultLimiter, rq.path)}
    ELSE LET a == AuthMiddleware(rq, rs, clock)
         IN  IF a.next THEN Serve(pos + 1, rq, a.response)
             ELSE {[pc |-> "idle", pos |-> pos, call |-> NoCall, response |-> a.response]}

\* getLimiterConfig: the limiter's own policy; the fallback is for a limiter
\* that is not a TokenBucketLimiter
getLimiterConfigMutantFallback(l) == Policy(100, 60, 0)
getLimiterConfig(l) == config[l]

\* the router takes a request and runs it up to its first wait
ServeHTTP(g, rq) ==
    /\ TakesCall(g)
    /\ calls > 0
    /\ calls' = calls - 1
    /\ \E o \in Serve(1, rq, [NoResponse EXCEPT !.metadata = rq.outgoing]) :
          /\ pc' = [pc EXCEPT ![g] = o.pc]
          /\ call' = [call EXCEPT ![g] = o.call]
          /\ request' = [request EXCEPT ![g] = [rq EXCEPT !.pos = o.pos]]
          /\ response' = [response EXCEPT ![g] = o.response]
    /\ UNCHANGED <<clock, limiterVars, held, ret, ledger, gw>>

\* RateLimitMiddleware.Middleware after limiter.Allow has returned
\* (ratelimit.go:71-110), with the rest of the chain when the request goes on
RateLimitRespond(g) ==
    LET l   == call[g].lim
        k   == call[g].key
        buckets == StoreGet(store[l], k, config[l], clock)
        metrics == Metrics(buckets[k], config[l])
        limit   == MapSet(response[g].header, "X-RateLimit-Limit",
                          getLimiterConfig(l).Requests)
        reset   == MapSet(limit, "X-RateLimit-Reset", metrics.ResetAt)
        denied  == [Traced(response[g], <<"Allow", "RecordBlock">>) EXCEPT
                       !.header = MapSet(MapSet(reset, "X-RateLimit-Remaining", 0),
                                         "Retry-After", RoundSeconds(ret[g].retryAfter)),
                       !.status = 429,
                       !.body = [error |-> "rate limit exceeded",
                                 retry_after_seconds |-> RoundSeconds(ret[g].retryAfter)]]
        admitted == [Traced(response[g], <<"Allow", "RecordAllow", "ratelimit.next">>) EXCEPT
                       !.header = MapSet(reset, "X-RateLimit-Remaining", metrics.Remaining)]
    IN  /\ pc[g] = "limited"
        /\ RLockFree(l)
        /\ store' = [store EXCEPT ![l] = buckets]
        /\ ledger' = [ledger EXCEPT ![l] = LedgerGet(@, store[l], k, clock)]
        /\ \E o \in IF ret[g].allowed
                    THEN Serve(request[g].pos + 1, request[g], admitted)
                    ELSE {[pc |-> "idle", pos |-> request[g].pos, call |-> NoCall,
                           response |-> denied]} :
              /\ pc' = [pc EXCEPT ![g] = o.pc]
              /\ call' = [call EXCEPT ![g] = o.call]
              /\ request' = [request EXCEPT ![g].pos = o.pos]
              /\ response' = [response EXCEPT ![g] = o.response]
        /\ ret' = [ret EXCEPT ![g] = NoRet]
        /\ UNCHANGED <<clock, calls, config, backoffConfig, mu, stopChan, sweeper, nextTick,
                       held, gw>>

\* what parseBackoffConfig returns for a disabled backoff
DisabledBackoff == [NilBackoff EXCEPT !.present = TRUE]

RestPath == <<"/", "rest", "/", "a">>
PublicPath == <<"/", "pub", "/", "x">>
RemoteAddr == <<"10.0.0.1", ":", "5000">>
Bearer(w) == <<"Bearer", " ", w>>

Request(urlPath, xff, authorization) ==
    [path |-> urlPath, xff |-> xff, xri |-> EmptyString, remoteAddr |-> RemoteAddr,
     authorization |-> authorization, outgoing |-> <<>>, pos |-> 0]

\* the requests sent to the gateway
Requests ==
    {Request(PublicPath, EmptyString, EmptyString),
     Request(RestPath, EmptyString, EmptyString),
     Request(RestPath, EmptyString, Bearer("jwt.ok")),
     Request(RestPath, EmptyString, <<"Basic", " ", "jwt.ok">>),
     Request(RestPath, EmptyString, Bearer("jwt.expiring")),
     Request(RestPath, EmptyString, Bearer("jwt.noexp")),
     Request(RestPath, <<" ", "1.1.1.1", ",", "10.0.0.1">>, Bearer("jwt.forged")),
     Request(RestPath, EmptyString, <<"bearer", " ", "jwt.nouser">>)}

\* the limiters OnStart makes: the default one and one for /rest/*
GatewayPolicies == [l \in {DefaultLimiter, 1} |-> IF l = DefaultLimiter THEN Policy(2, 1, 0)
                                                   ELSE Policy(1, 2, 1)]
EndpointLimiters == [pat \in {<<"/", "rest", "/", "*">>} |-> 1]
PublicRoutes == << <<"/", "pub", "/", "*">> >>

\* After OnStart: each middleware is on the router when its configuration enables
\* it; an auth middleware can also be built disabled and put before a handler
\* (TestAuthMiddleware_Middleware_Disabled).
Init ==
    /\ clock = 0
    /\ calls = MaxServed
    /\ \E attached \in SUBSET {"ratelimit", "auth"}, authEnabled \in BOOLEAN :
          /\ attached # {}
          /\ ~authEnabled => attached = {"auth"}
          /\ gw = [chain |-> Chain(attached), rlEnabled |-> "ratelimit" \in attached,
                   authEnabled |-> authEnabled /\ "auth" \in attached,
                   limiters |-> IF "ratelimit" \in attached THEN EndpointLimiters ELSE <<>>,
                   publicRoutes |-> PublicRoutes, phase |-> "started"]
          /\ config = IF "ratelimit" \in attached THEN GatewayPolicies ELSE <<>>
    /\ backoffConfig \in {DisabledBackoff, Backoff(2, 10, 2)}
    /\ store = [l \in DOMAIN config |-> EmptyMap]
    /\ ledger = [l \in DOMAIN config |-> EmptyMap]
    /\ mu = [l \in DOMAIN config |-> NoOne]
    /\ stopChan = [l \in DOMAIN config |-> FALSE]
    /\ sweeper = [l \in DOMAIN config |-> "running"]
    /\ nextTick = [l \in DOMAIN config |-> CleanupInterval]
    /\ pc = [g \in Goroutines |-> "idle"]
    /\ call = [g \in Goroutines |-> NoCall]
    /\ held = [g \in Goroutines |-> NoBucket]
    /\ ret = [g \in Goroutines |-> NoRet]
    /\ request = [g \in Goroutines |-> NoRequest]
    /\ response = [g \in Goroutines |-> NoResponse]

Next ==
    \/ \E g \in Goroutines, rq \in Requests : ServeHTTP(g, rq)
    \/ \E g \in Goroutines : AllowLock(g)
    \/ \E g \in Goroutines : AllowBody(g)
    \/ \E g \in Goroutines : RateLimitRespond(g)
    \/ \E l \in DOMAIN store : cleanupExpired(l)
    \/ Tick

Spec == Init /\ [][Next]_vars

(***************************************************************************)
(* The gateway process from the moment its HTTP server listens             *)
(* (initializeServices, service.go:59-61) through OnStart to OnStop.       *)
(***************************************************************************)
\* time.ParseDuration for strings of whole seconds, minutes and hours: one or
\* more decimal numbers each followed by its unit, or the single "0"; anything
\* else is an error
ParseDuration(s) ==
    LET digits == [n \in {"1", "2", "60"} |-> IF n = "1" THEN 1 ELSE IF n = "2" THEN 2 ELSE 60]
        units  == [u \in {"s", "m", "h"} |-> IF u = "s" THEN 1 ELSE IF u = "m" THEN 60 ELSE Expiry]
        wellFormed == /\ Len(s) > 0 /\ Len(s) % 2 = 0
                      /\ \A i \in 1..Len(s) :
                             IF i % 2 = 1 THEN s[i] \in DOMAIN digits ELSE s[i] \in DOMAIN units
        Sum[i \in 0..(Len(s) \div 2)] ==
            IF i = 0 THEN 0 ELSE Sum[i - 1] + digits[s[2 * i - 1]] * units[s[2 * i]]
    IN  IF s = <<"0">> THEN [ok |-> TRUE, seconds |-> 0]
        ELSE IF wellFormed THEN [ok |-> TRUE, seconds |-> Sum[Len(s) \div 2]]
        ELSE [ok |-> FALSE, seconds |-> 0]

\* OnStart, step by step while the server goroutine serves requests: the
\* backends' handlers are registered, then the rate limit middleware is made
\* and put on the router, then the auth middleware.  gw.raw is the ratelimit
\* section of the configuration as written; a Fatalf ends the process.
OnStart ==
    \/ /\ gw.phase = "listening"
       /\ gw' = [gw EXCEPT !.phase = "registered"]
       /\ UNCHANGED <<clock, calls, limiterVars, callerVars, ledger, request, response>>
    \/ /\ gw.phase = "registered"
       /\ LET raw       == gw.raw
              base      == ParseDuration(raw.backoff.base)
              max       == ParseDuration(raw.backoff.max)
              default   == ParseDuration(raw.default)
              \* the endpoints whose window parses; the others are skipped with a warning
              parsed    == {pat \in DOMAIN raw.endpoints : ParseDuration(raw.endpoints[pat]).ok}
              made      == {DefaultLimiter} \cup {EndpointLimiters[pat] : pat \in parsed}
              window(l) == IF l = DefaultLimiter THEN default.seconds
                           ELSE ParseDuration(raw.endpoints[
                                    CHOOSE pat \in parsed : EndpointLimiters[pat] = l]).seconds
          IN  IF ~gw.rlEnabled
              THEN /\ gw' = [gw EXCEPT !.phase = "limited"]
                   /\ UNCHANGED <<limiterVars, ledger>>
              ELSE IF (raw.backoff.enabled /\ ~(base.ok /\ max.ok)) \/ ~default.ok
              THEN /\ gw' = [gw EXCEPT !.phase = "fatal"]
                   /\ UNCHANGED <<limiterVars, ledger>>
              ELSE /\ gw' = [gw EXCEPT !.phase = "limited", !.chain = Chain({"ratelimit"}),
                                       !.limiters = [pat \in parsed |-> EndpointLimiters[pat]]]
                   /\ backoffConfig' = IF raw.backoff.enabled
                                       THEN Backoff(base.seconds, max.seconds, raw.backoff.multiplier)
                                       ELSE DisabledBackoff
                   /\ config' = [l \in made |-> [GatewayPolicies[l] EXCEPT !.Window = window(l)]]
                   /\ store' = [l \in made |-> EmptyMap]
                   /\ ledger' = [l \in made |-> EmptyMap]
                   /\ mu' = [l \in made |-> NoOne]
                   /\ stopChan' = [l \in made |-> FALSE]
                   /\ sweeper' = [l \in made |-> "running"]
                   /\ nextTick' = [l \in made |-> clock + CleanupInterval]
       /\ UNCHANGED <<clock, calls, callerVars, request, response>>
    \/ /\ gw.phase = "limited"
       /\ gw' = [gw EXCEPT !.phase = "started",
                           !.chain = IF gw.authEnabled
                                     THEN Chain({x \in {"ratelimit"} : gw.rlEnabled} \cup {"auth"})
                                     ELSE @]
       /\ UNCHANGED <<clock, calls, limiterVars, callerVars, ledger, request, response>>

\* the signal arrives and APIGatewayService.OnStop runs: its body is empty
OnStop ==
    /\ gw.phase = "started"
    /\ gw' = [gw EXCEPT !.phase = "stopped"]
    /\ UNCHANGED <<clock, calls, limiterVars, callerVars, ledger, request, response>>

InitLife ==
    /\ clock = 0
    /\ calls = MaxServed
    /\ \E rl \in BOOLEAN, auth \in BOOLEAN,
          default \in {<<"1", "s">>, <<"1">>}, endpoint \in {<<"2", "s">>, <<"abc">>},
          backoff \in {[enabled |-> FALSE, base |-> <<>>, max |-> <<>>, multiplier |-> 0],
                       [enabled |-> TRUE, base |-> <<"1", "m">>, max |-> <<"1", "x">>,
                        multiplier |-> 2]} :
          /\ ~rl => default = <<"1", "s">> /\ endpoint = <<"2", "s">> /\ ~backoff.enabled
          /\ gw = [chain |-> <<>>, rlEnabled |-> rl, authEnabled |-> auth, limiters |-> <<>>,
                   publicRoutes |-> PublicRoutes, phase |-> "listening",
                   raw |-> [default |-> default,
                            endpoints |-> [pat \in DOMAIN EndpointLimiters |-> endpoint],
                            backoff |-> backoff]]
    /\ config = <<>>
    /\ backoffConfig = DisabledBackoff
    /\ store = <<>>
    /\ ledger = <<>>
    /\ mu = <<>>
    /\ stopChan = <<>>
    /\ sweeper = <<>>
    /\ nextTick = <<>>
    /\ pc = [g \in Goroutines |-> "idle"]
    /\ call = [g \in Goroutines |-> NoCall]
    /\ held = [g \in Goroutines |-> NoBucket]
    /\ ret = [g \in Goroutines |-> NoRet]
    /\ request = [g \in Goroutines |-> NoRequest]
    /\ response = [g \in Goroutines |-> NoResponse]

NextLife ==
    \/ OnStart
    \/ OnStop
    \/ \E g \in Goroutines, rq \in {Request(RestPath, EmptyString, EmptyString),
                                    Request(RestPath, EmptyString, Bearer("jwt.ok"))} :
          gw.phase # "fatal" /\ ServeHTTP(g, rq)
    \/ \E g \in Goroutines : AllowLock(g)
    \/ \E g \in Goroutines : AllowBody(g)
    \/ \E g \in Goroutines : RateLimitRespond(g)
    \/ \E l \in DOMAIN store : cleanupExpired(l)
    \/ Tick

SpecLife == InitLife /\ [][NextLife]_vars

(***************************************************************************)
(* The gateway with only the auth middleware on the router (auth.enabled,  *)
(* ratelimit.enabled = false): no limiter is made.                         *)
(***************************************************************************)
\* the outgoing metadata a request's context may already carry when the auth
\* middleware receives it: none, another key, a value for user-id
Outgoing ==
    {<<>>, [k \in {"accept-language"} |-> <<"fa">>], [k \in {"user-id"} |-> <<"u0">>]}

\* requests with every kind of token, and with something that is no JWT; and
\* requests without a token for paths of up to three segments, with doubled
\* and trailing slashes
AuthRequests ==
    {[Request(p, EmptyString, Bearer(w)) EXCEPT !.outgoing = md] :
        p \in {RestPath, PublicPath}, w \in DOMAIN DecodeJWT \cup {"garbage"},
        md \in Outgoing}
    \cup {Request(RestPath, EmptyString, h) :
            h \in {<<"token123">>, <<"Basic", " ", "x">>, <<"Bearer">>, <<"Bearer", " ">>,
                   <<"BEARER", " ", "jwt.ok">>, <<"bearer", " ", " ", "jwt.ok">>}}
    \cup {Request(p, EmptyString, EmptyString) :
            p \in {<<"/">>, <<"/", "a">>, <<"/", "a", "/">>, <<"/", "b">>,
                   <<"/", "a", "/", "b">>, <<"/", "a", "/", "b", "/">>,
                   <<"/", "b", "/", "a">>, <<"/", "a", "/", "/", "b">>,
                   <<"/", "a", "/", "a", "/", "b">>, <<"/", "a", "/", "b", "/", "a">>,
                   <<"/", "a", "/", "*">>}}

\* the lists of public routes the gateway may be configured with: up to two of
\* these patterns, or the one of the deployment
RouteLists ==
    LET patterns == {<<"/", "*">>, <<"/", "a">>, <<"/", "a", "/", "b">>,
                     <<"/", "a", "/", "*">>, <<"/", "a", "/", "*", "/">>,
                     <<"/", "a", "/", "*", "/", "b">>, <<"/", "*", "/", "b">>}
    IN  {<<>>, PublicRoutes} \cup {<<p>> : p \in patterns}
        \cup {<<p, q>> : p \in {<<"/", "a">>, <<"/", "a", "/", "*">>},
                         q \in {<<"/", "a", "/", "b">>, <<"/", "*", "/", "b">>}}

InitAuth ==
    /\ clock = 0
    /\ calls = MaxServed
    /\ \E routes \in RouteLists :
          gw = [chain |-> Chain({"auth"}), rlEnabled |-> FALSE, authEnabled |-> TRUE,
                limiters |-> <<>>, publicRoutes |-> routes, phase |-> "started"]
    /\ config = <<>>
    /\ backoffConfig = DisabledBackoff
    /\ store = <<>>
    /\ ledger = <<>>
    /\ mu = <<>>
    /\ stopChan = <<>>
    /\ sweeper = <<>>
    /\ nextTick = <<>>
    /\ pc = [g \in Goroutines |-> "idle"]
    /\ call = [g \in Goroutines |-> NoCall]
    /\ held = [g \in Goroutines |-> NoBucket]
    /\ ret = [g \in Goroutines |-> NoRet]
    /\ request = [g \in Goroutines |-> NoRequest]
    /\ response = [g \in Goroutines |-> NoResponse]

\* strings.Replace(s, old, new, 1)
Replace(s, old, new) ==
    LET hits == {i \in 1..(Len(s) - Len(old) + 1) : SubSeq(s, i, i + Len(old) - 1) = old}
    IN  IF hits = {} THEN s
        ELSE LET i == CHOOSE h \in hits : \A j \in hits : h <= j
             IN  SubSeq(s, 1, i - 1) \o new \o SubSeq(s, i + Len(old), Len(s))

\* the services of the docs section (docs_proxy_test.go:107-112), each with a
\* base URL that has no path
DocsServices == {"auth"}

\* A request on a router that has the routes of DocsProxy.RegisterRoutes:
\* PathPrefix("/docs/{service}/swagger-ui") to handleSwaggerUI, then
\* "/docs/{service}/swagger.json" to handleSwaggerJSON; the response records
\* the path of the request the reverse proxy sends upstream.
ServeDocs(g, rq) ==
    LET p           == rq.path
        serviceName == p[4]
        routed      == /\ Len(p) >= 6 /\ SubSeq(p, 1, 3) = <<"/", "docs", "/">>
                       /\ p[4] # "/" /\ p[5] = "/"
        upstream(newPath) == [Traced(NoResponse, <<"docs", "upstream">>) EXCEPT
                                 !.status = 200, !.body = [path |-> newPath]]
        notFound    == HttpError(Traced(NoResponse, <<"docs">>), [error |-> "not available"], 404)
    IN  /\ TakesCall(g)
        /\ calls > 0
        /\ calls' = calls - 1
        /\ request' = [request EXCEPT ![g] = rq]
        /\ response' = [response EXCEPT ![g] =
              IF routed /\ p[6] = "swagger-ui"
              THEN IF serviceName \notin DocsServices THEN notFound
                   ELSE upstream(Replace(p, <<"/", "docs", "/", serviceName, "/", "swagger-ui">>,
                                         <<"/", "docs", "/", "swagger-ui", "/">>))
              ELSE IF routed /\ Len(p) = 6 /\ p[6] = "swagger.json"
              THEN IF serviceName \notin DocsServices THEN notFound
                   ELSE upstream(<<"/", "docs", "/", serviceName, ".swagger.json">>)
              ELSE HttpError(NoResponse, [error |-> "404 page not found"], 404)]
        /\ UNCHANGED <<clock, limiterVars, callerVars, ledger, gw>>

NextAuth ==
    \/ \E g \in Goroutines, rq \in AuthRequests : ServeHTTP(g, rq)
    \/ \E g \in Goroutines, s \in {"auth", "nope"},
          rest \in {<<"swagger-ui">>, <<"swagger-ui", "/">>, <<"swagger-ui", "/", "index.html">>,
                    <<"swagger-ui", "/", "css", "/", "a.css">>, <<"swagger.json">>,
                    <<"redoc">>} :
          ServeDocs(g, Request(<<"/", "docs", "/", s, "/">> \o rest, EmptyString, EmptyString))
    \/ Tick

SpecAuth == InitAuth /\ [][NextAuth]_vars

(***************************************************************************)
(* The gateway with only the rate limit middleware on the router           *)
(* (ratelimit.enabled, auth.enabled = false), under the limits of its      *)
(* README.                                                                 *)
(***************************************************************************)
OtpPath == <<"/", "rest", "/", "auth", "/", "otp", "/", "authenticate">>
UserPath == <<"/", "rest", "/", "user", "/", "x">>

\* After OnStart: the limiters made from the configured policies, and the
\* number of requests that will be sent
InitRateLimited(policies, limiters, backoffs, budget) ==
    /\ clock = 0
    /\ calls = budget
    /\ gw = [chain |-> Chain({"ratelimit"}), rlEnabled |-> TRUE, authEnabled |-> FALSE,
             limiters |-> limiters, publicRoutes |-> PublicRoutes, phase |-> "started"]
    /\ config = policies
    /\ backoffConfig \in backoffs
    /\ store = [l \in DOMAIN config |-> EmptyMap]
    /\ ledger = [l \in DOMAIN config |-> EmptyMap]
    /\ mu = [l \in DOMAIN config |-> NoOne]
    /\ stopChan = [l \in DOMAIN config |-> FALSE]
    /\ sweeper = [l \in DOMAIN config |-> "running"]
    /\ nextTick = [l \in DOMAIN config |-> CleanupInterval]
    /\ pc = [g \in Goroutines |-> "idle"]
    /\ call = [g \in Goroutines |-> NoCall]
    /\ held = [g \in Goroutines |-> NoBucket]
    /\ ret = [g \in Goroutines |-> NoRet]
    /\ request = [g \in Goroutines |-> NoRequest]
    /\ response = [g \in Goroutines |-> NoResponse]

\* One client of the OTP endpoint: the default policy and the endpoint's own
\* (limiter 1), with the backoff off or as the README sets it.
TripPolicies ==
    [l \in {DefaultLimiter, 1} |-> IF l = DefaultLimiter THEN Policy(100, 60, 20)
                                   ELSE Policy(5, 60, 0)]
TripLimiters == [pat \in {OtpPath} |-> 1]
TripRequest == Request(OtpPath, EmptyString, EmptyString)

InitTrip ==
    InitRateLimited(TripPolicies, TripLimiters, {DisabledBackoff, Backoff(60, 3600, 2)}, MaxTrip)

NextTrip ==
    \/ \E g \in Goroutines : ServeHTTP(g, TripRequest)
    \/ \E g \in Goroutines : AllowLock(g)
    \/ \E g \in Goroutines : AllowBody(g)
    \/ \E g \in Goroutines : RateLimitRespond(g)
    \/ \E l \in DOMAIN store : cleanupExpired(l)
    \/ Tick

SpecTrip == InitTrip /\ [][NextTrip]_vars

\* Wildcard policies that match the same paths: limiter 1 for /rest/*,
\* limiter 2 for /rest/user/*, limiter 3 for the OTP endpoint itself, and
\* limiter 4 for a pattern with a wildcard inside, /rest/*/public.
SelectPolicies ==
    [l \in {DefaultLimiter, 1, 2, 3, 4} |->
        IF l = DefaultLimiter THEN Policy(100, 60, 20)
        ELSE IF l = 1 THEN Policy(50, 60, 0)
        ELSE IF l = 2 THEN Policy(200, 60, 50)
        ELSE IF l = 3 THEN Policy(5, 60, 0)
        ELSE Policy(10, 60, 0)]
SelectLimiters ==
    [pat \in {<<"/", "rest", "/", "*">>, <<"/", "rest", "/", "user", "/", "*">>, OtpPath,
              <<"/", "rest", "/", "*", "/", "public">>} |->
        IF pat = OtpPath THEN 3 ELSE IF Len(pat) = 4 THEN 1
        ELSE IF pat[Len(pat)] = "*" THEN 2 ELSE 4]
SelectRequests ==
    {Request(OtpPath, EmptyString, EmptyString), Request(UserPath, EmptyString, EmptyString),
     Request(<<"/", "rest", "/", "a", "/", "private">>, EmptyString, EmptyString)}

InitSelect == InitRateLimited(SelectPolicies, SelectLimiters, {DisabledBackoff}, MaxServed)

NextSelect ==
    \/ \E g \in Goroutines, rq \in SelectRequests : ServeHTTP(g, rq)
    \/ \E g \in Goroutines : AllowLock(g)
    \/ \E g \in Goroutines : AllowBody(g)
    \/ \E g \in Goroutines : RateLimitRespond(g)
    \/ \E l \in DOMAIN store : cleanupExpired(l)
    \/ Tick

SpecSelect == InitSelect /\ [][NextSelect]_vars

(***************************************************************************)
(* A request of an offender that arrives inside a backoff period.  The     *)
(* instants of the model are whole seconds, the clock of the program is    *)
(* not: inside the second that `clock' stands for, the request arrives at  *)
(* any tenth of a second, and Allow returns what is left of the backoff    *)
(* period at that point (limiter.go:43).                                   *)
(***************************************************************************)
\* what Allow decides from the bucket b at now, when the decision is unique
Decision(b, cfg, bc, now) == CHOOSE o \in AllowOutcomes(b, cfg, bc, now) : TRUE

RECURSIVE Drained(_, _, _)
\* the bucket of a key and its history after the key's first r requests, all
\* sent at the start
Drained(cfg, bc, r) ==
    LET before == IF r = 1 THEN [bucket |-> NewBucket(cfg, 0), ledger |-> NewLedger(0)]
                  ELSE Drained(cfg, bc, r - 1)
        o == Decision(before.bucket, cfg, bc, 0)
    IN  [bucket |-> o.bucket, ledger |-> LedgerAfter(before.ledger, o, before.bucket, 0)]

RECURSIVE Offender(_, _, _)
\* The bucket of a key and its history after n violations: the bucket is made
\* and drained at the start, and every violation is the first request after the
\* backoff period of the one before (at the start when there is none).
Offender(cfg, bc, n) ==
    IF n = 0 THEN Drained(cfg, bc, cfg.Requests)
    ELSE LET before == Offender(cfg, bc, n - 1)
             at == IF before.bucket.BackoffUntil > 0 THEN before.bucket.BackoffUntil ELSE 0
             o  == Decision(before.bucket, cfg, bc, at)
         IN  [bucket |-> o.bucket, ledger |-> LedgerAfter(before.ledger, o, before.bucket, at)]

\* k tenths of a second
Tenths(k) == [neg |-> FALSE, mag |-> BigTrim(BigShift(BigFromNat(k), 2))]

\* The middleware of limiter 1 when Allow has returned its denial: goroutine g1
\* serves the request, which came tenths/10 seconds before the end of the
\* backoff period of the key's last violation.
InitDenied ==
    \E n \in 1..MaxViolations :
      LET cfg == GatewayPolicies[1]
          bc  == Backoff(2, 10, 2)
          off == Offender(cfg, bc, n)
          rq  == Request(RestPath, EmptyString, EmptyString)
          k   == LimiterKey(extractClientIP(rq), rq.path)
      IN  \E tenths \in 1..(10 * (off.bucket.BackoffUntil - off.bucket.LastViolation)) :
            LET now == off.bucket.BackoffUntil - 1 - ((tenths - 1) \div 10)
                o   == [Decision(off.bucket, cfg, bc, now) EXCEPT !.retryAfter = Tenths(tenths)]
            IN  /\ clock = now
                /\ calls = 0
                /\ gw = [chain |-> Chain({"ratelimit"}), rlEnabled |-> TRUE,
                         authEnabled |-> FALSE, limiters |-> EndpointLimiters,
                         publicRoutes |-> PublicRoutes, phase |-> "started"]
                /\ config = GatewayPolicies
                /\ backoffConfig = bc
                /\ store = [l \in DOMAIN config |-> IF l = 1 THEN MapSet(EmptyMap, k, off.bucket)
                                                    ELSE EmptyMap]
                /\ ledger = [l \in DOMAIN config |->
                                IF l = 1
                                THEN MapSet(EmptyMap, k, LedgerAfter(off.ledger, o, off.bucket, now))
                                ELSE EmptyMap]
                /\ mu = [l \in DOMAIN config |-> NoOne]
                /\ stopChan = [l \in DOMAIN config |-> FALSE]
                /\ sweeper = [l \in DOMAIN config |-> "running"]
                /\ nextTick = [l \in DOMAIN config |-> CleanupInterval]
                /\ pc = [g \in Goroutines |-> IF g = "g1" THEN "limited" ELSE "idle"]
                /\ call = [g \in Goroutines |->
                              IF g = "g1" THEN [op |-> "Allow", lim |-> 1, key |-> k, from |-> "mw"]
                              ELSE NoCall]
                /\ held = [g \in Goroutines |-> NoBucket]
                /\ ret = [g \in Goroutines |->
                             IF g = "g1" THEN [NoRet EXCEPT !.op = "Allow", !.allowed = o.allowed,
                                                            !.retryAfter = o.retryAfter]
                             ELSE NoRet]
                /\ request = [g \in Goroutines |-> IF g = "g1" THEN [rq EXCEPT !.pos = 1]
                                                   ELSE NoRequest]
                /\ response = [g \in Goroutines |->
                                  IF g = "g1" THEN Traced(NoResponse, <<"ratelimit">>)
                                  ELSE NoResponse]

NextDenied == \E g \in Goroutines : RateLimitRespond(g)

SpecDenied == InitDenied /\ [][NextDenied]_vars

(***************************************************************************)
(* One limiter called directly, from the moment one of its keys is an      *)
(* offender: drained, or with violations, or inside a backoff period.      *)
(***************************************************************************)
InitOffender ==
    \E p \in Policies, bc \in BackoffConfigs, n \in 0..MaxViolations :
      LET off == Offender(p, bc, n)
          k   == <<"k", "1">>
      IN  /\ clock = off.ledger.last.at
          /\ calls = MaxLater
          /\ config = [l \in {DefaultLimiter} |-> p]
          /\ backoffConfig = bc
          /\ store = [l \in {DefaultLimiter} |-> MapSet(EmptyMap, k, off.bucket)]
          /\ ledger = [l \in {DefaultLimiter} |-> MapSet(EmptyMap, k, off.ledger)]
          /\ mu = [l \in {DefaultLimiter} |-> NoOne]
          /\ stopChan = [l \in {DefaultLimiter} |-> FALSE]
          /\ sweeper = [l \in {DefaultLimiter} |-> "running"]
          /\ nextTick = [l \in {DefaultLimiter} |-> CleanupInterval]
          /\ pc = [g \in Goroutines |-> "idle"]
          /\ call = [g \in Goroutines |-> NoCall]
          /\ held = [g \in Goroutines |-> NoBucket]
          /\ ret = [g \in Goroutines |-> NoRet]
          /\ gw = NoGateway
          /\ request = [g \in Goroutines |-> NoRequest]
          /\ response = [g \in Goroutines |-> NoResponse]

SpecOffender == InitOffender /\ [][NextLimiter]_vars

(***************************************************************************)
(* One limiter whose key is a long-standing offender: either blocked for   *)
(* two hours after its first violation (base and max of two hours), or at  *)
(* the end of the backoff period of its tenth violation (base and max of   *)
(* one second, multiplier 10).                                             *)
(***************************************************************************)
InitVeteran ==
    \E long \in BOOLEAN :
      LET p   == Policy(1, 1, 0)
          bc  == IF long THEN Backoff(2 * Expiry, 2 * Expiry, 2) ELSE Backoff(1, 1, 10)
          off == Offender(p, bc, IF long THEN 1 ELSE 10)
          k   == <<"k", "1">>
      IN  /\ clock = IF long THEN off.ledger.last.at ELSE off.bucket.BackoffUntil
          /\ calls = MaxLater
          /\ config = [l \in {DefaultLimiter} |-> p]
          /\ backoffConfig = bc
          /\ store = [l \in {DefaultLimiter} |-> MapSet(EmptyMap, k, off.bucket)]
          /\ ledger = [l \in {DefaultLimiter} |-> MapSet(EmptyMap, k, off.ledger)]
          /\ mu = [l \in {DefaultLimiter} |-> NoOne]
          /\ stopChan = [l \in {DefaultLimiter} |-> FALSE]
          /\ sweeper = [l \in {DefaultLimiter} |-> "running"]
          /\ nextTick = [l \in {DefaultLimiter} |-> CleanupInterval]
          /\ pc = [g \in Goroutines |-> "idle"]
          /\ call = [g \in Goroutines |-> NoCall]
          /\ held = [g \in Goroutines |-> NoBucket]
          /\ ret = [g \in Goroutines |-> NoRet]
          /\ gw = NoGateway
          /\ request = [g \in Goroutines |-> NoRequest]
          /\ response = [g \in Goroutines |-> NoResponse]

SpecVeteran == InitVeteran /\ [][NextLimiter]_vars

(***************************************************************************)
(* Properties of the limiter.                                              *)
(***************************************************************************)
RECURSIVE Pow(_, _)
Pow(m, e) == IF e = 0 THEN 1 ELSE m * Pow(m, e - 1)

Minimum(a, b) == IF a <= b THEN a ELSE b

\* min(base * multiplier^(n-1), max), in seconds
PenaltySeconds(bc, n) ==
    Minimum(bc.BaseDuration * Pow(bc.Multiplier, n - 1), bc.MaxDuration)

Ledgers == UNION {{<<l, k>> : k \in DOMAIN ledger[l]} : l \in DOMAIN ledger}

\* C1: every bucket of a limiter with policy (R, W, B) holds 0 <= tokens <= R + B
\* in every reachable state, whatever the interleaving of Allow, GetMetrics,
\* Reset and sweeps; no admit leaves tokens below 0.
C1_TokensWithinBounds ==
    \A l \in DOMAIN store : \A k \in DOMAIN store[l] :
        LET t == store[l][k].Tokens
        IN  /\ t.whole >= 0
            /\ t.nano >= 0 /\ t.nano < NanosPerSecond
            /\ t.sub >= 0 /\ t.sub < config[l].Window
            /\ TokensLeq(t, TokensOf(config[l].Requests + config[l].BurstSize))

\* a bucket refilled after an idle time whose last token an admit has just taken
C1_Witness ==
    \E p \in Ledgers :
        /\ Has(store[p[1]], p[2])
        /\ ledger[p[1]][p[2]].last.kind = "admit"
        /\ ledger[p[1]][p[2]].last.elapsed > 0
        /\ store[p[1]][p[2]].Tokens.whole = 0

\* C2: with backoff disabled, the Allow calls on one bucket with policy
\* (R, W, B) admit at most R + B calls within any time window of length W.
C2_AdmitsPerWindow ==
    ~BackoffOn(backoffConfig) =>
        \A p \in Ledgers :
            LET a   == ledger[p[1]][p[2]].admits
                cfg == config[p[1]]
            IN  \A i \in 1..Len(a) :
                    Cardinality({j \in i..Len(a) : a[j] < a[i] + cfg.Window})
                        <= cfg.Requests + cfg.BurstSize

\* a bucket that admitted R >= 2 calls within one window and then denied one in it
C2_Witness ==
    /\ ~BackoffOn(backoffConfig)
    /\ \E p \in Ledgers :
          LET lg == ledger[p[1]][p[2]]
          IN  /\ Len(lg.admits) = config[p[1]].Requests
              /\ Len(lg.admits) >= 2
              /\ lg.last.kind = "violation"
              /\ lg.last.at < lg.admits[1] + config[p[1]].Window

\* C3: Allow calls on one key are serialized: of the n calls decided on a bucket
\* while no time elapses, starting from t tokens, exactly min(n, floor(t)) are
\* admitted (no token is spent twice), also when the calls overlap.
C3_SerializedAllow ==
    \A p \in Ledgers :
        LET lg == ledger[p[1]][p[2]]
        IN  lg.instAdmits = Minimum(lg.instCalls, lg.instTokens)

\* two overlapping calls found one token: one admitted, one denied
C3_Witness ==
    \E p \in Ledgers :
        LET lg == ledger[p[1]][p[2]]
        IN  lg.overlap /\ lg.instTokens = 1 /\ lg.instCalls = 2 /\ lg.instAdmits = 1

\* C8: a bucket made for a key never seen before starts with tokens = R: of the
\* Allow calls at the instant of its creation exactly the first R are admitted,
\* the next one is denied with a non-zero retry_after, and the burst adds nothing.
C8_FreshBucket ==
    \A p \in Ledgers :
        LET lg == ledger[p[1]][p[2]]
            r  == config[p[1]].Requests
        IN  lg.instAt = lg.created =>
              /\ lg.instTokens = r
              /\ lg.instAdmits = Minimum(lg.instCalls, r)
              /\ (lg.last.kind = "violation" /\ lg.last.at = lg.created)
                    => ~DurIsZero(lg.last.retryAfter)

\* a fresh bucket with a burst allowance admitted R calls and denied call R + 1
C8_Witness ==
    \E p \in Ledgers :
        LET lg == ledger[p[1]][p[2]]
            r  == config[p[1]].Requests
        IN  /\ config[p[1]].BurstSize > 0
            /\ lg.instAt = lg.created
            /\ lg.instCalls = r + 1 /\ lg.instAdmits = r
            /\ lg.last.kind = "violation"

RECURSIVE TokensAddTimes(_, _, _, _)
\* t + times * (n / (W * 10^9))
TokensAddTimes(t, n, W, times) ==
    IF times = 0 THEN t ELSE TokensAddTimes(TokensAdd(t, n, W), n, W, times - 1)

\* min(t + R * e / W, R + B): the refill at R tokens per window W
ClaimedRefill(t, e, cfg) ==
    LET q == (cfg.Requests * e) \div cfg.Window
        r == (cfg.Requests * e) % cfg.Window
    IN  TokensMin(TokensAddTimes([t EXCEPT !.whole = @ + q], NanosPerSecond, cfg.Window, r),
                  cfg.Requests + cfg.BurstSize)

\* C9: an Allow outside a backoff period, made e after last_refill on a bucket
\* holding t tokens, decides on min(t + R * e / W, R + B) tokens.
C9_RefillRate ==
    \A p \in Ledgers :
        LET lg == ledger[p[1]][p[2]]
        IN  lg.last.kind \in {"admit", "violation"} =>
                lg.last.considered = ClaimedRefill(lg.last.before, lg.last.elapsed, config[p[1]])

Count(tr, e) == Cardinality({i \in 1..Len(tr) : tr[i] = e})

\* event a is in the trace and comes before the first event b
Before(tr, a, b) == Index(tr, a) > 0 /\ Index(tr, a) < Index(tr, b)

Served == {g \in Goroutines : response[g].trace # <<>>}

\* the path matches a configured public pattern
MatchesPublic(urlPath) ==
    \E i \in 1..Len(gw.publicRoutes) : RouteMatchPattern(gw.publicRoutes[i], urlPath)

\* C4: with both middlewares enabled a request passes rate-limit, then auth, then
\* the translator: a request answered 429 has invoked neither the validator nor
\* the translator, and a request answered 401 has been decided and counted by
\* the limiter before auth saw it.
C4_ChainOrder ==
    (gw.rlEnabled /\ gw.authEnabled) =>
        \A g \in Served :
            LET tr == response[g].trace
            IN  /\ tr[1] = "ratelimit"
                /\ Contains(tr, "auth") => Before(tr, "ratelimit.next", "auth")
                /\ Contains(tr, "handler") => Before(tr, "auth.next", "handler")
                /\ response[g].status = 429 =>
                      ~Contains(tr, "auth") /\ ~Contains(tr, "Validate") /\ ~Contains(tr, "handler")
                /\ response[g].status = 401 =>
                      Before(tr, "Allow", "auth") /\ Before(tr, "RecordAllow", "auth")

\* one request was admitted by the limiter and then rejected by the validator,
\* another was denied by the limiter
C4_Witness ==
    /\ gw.rlEnabled /\ gw.authEnabled
    /\ \E g, h \in Served :
          /\ response[g].status = 401 /\ Contains(response[g].trace, "Validate")
          /\ response[h].status = 429

C6_AuthOutcomes ==
    gw.authEnabled =>
        \A g \in Served :
            LET tr == response[g].trace
            IN  Contains(tr, "auth") =>
                    IF MatchesPublic(request[g].path) \/ Contains(tr, "claims")
                    THEN Count(tr, "auth.next") = 1 /\ Count(tr, "handler") = 1
                    ELSE response[g].status = 401 /\ Count(tr, "auth.next") = 0
                         /\ Count(tr, "handler") = 0

\* C7: a request checked by a limiter: when Allow denies, the response is 429
\* with X-RateLimit-Limit = the policy's requests, X-RateLimit-Remaining = 0,
\* X-RateLimit-Reset and Retry-After set, and the next handler is not invoked;
\* when Allow admits, the three X-RateLimit headers are set, Remaining is an
\* integer >= 0, and the next handler is invoked exactly once.
C7_LimiterResponse ==
    \A g \in Served :
        LET tr == response[g].trace
            h  == response[g].header
            requests == {config[l].Requests :
                            l \in getLimiterForPath(gw.limiters, DefaultLimiter, request[g].path)}
        IN  /\ Contains(tr, "RecordBlock") =>
                  /\ response[g].status = 429
                  /\ DOMAIN h = {"X-RateLimit-Limit", "X-RateLimit-Remaining",
                                 "X-RateLimit-Reset", "Retry-After"}
                  /\ h["X-RateLimit-Limit"] \in requests
                  /\ h["X-RateLimit-Remaining"] = 0
                  /\ Count(tr, "ratelimit.next") = 0
                  /\ tr[Len(tr)] = "RecordBlock"
            /\ Contains(tr, "RecordAllow") =>
                  /\ DOMAIN h = {"X-RateLimit-Limit", "X-RateLimit-Remaining",
                                 "X-RateLimit-Reset"}
                  /\ h["X-RateLimit-Limit"] \in requests
                  /\ h["X-RateLimit-Remaining"] \in Nat
                  /\ Count(tr, "ratelimit.next") = 1

\* the limiter of /rest/* admitted one request and denied the next
C7_Witness ==
    \E g, h \in Served :
        /\ Contains(response[g].trace, "RecordAllow")
        /\ response[g].header["X-RateLimit-Remaining"] = 0
        /\ response[h].status = 429
        /\ response[h].header["X-RateLimit-Limit"] = 1

(***************************************************************************)
(* Properties of the durations a denial returns and advertises.            *)
(***************************************************************************)
\* C11: every denied Allow call returns retry_after >= 0, with the backoff
\* enabled or not (a time.Duration is a signed 64-bit count of nanoseconds).
C11_RetryAfterNonNegative ==
    \A g \in Goroutines :
        (ret[g].op = "Allow" /\ ~ret[g].allowed) => ~DurIsNegative(ret[g].retryAfter)

\* (1 - tokens) / refill_rate for a refill rate of Requests per Window: the
\* time until the bucket holds one token, in nanoseconds
TimeToOneToken(t, cfg) ==
    [neg |-> FALSE,
     mag |-> BigDivSmall(BigSub(BigMulSmall(BigFromNat(NanosPerSecond - t.nano), cfg.Window),
                                BigFromNat(t.sub)), cfg.Requests)]

\* C12: with backoff disabled a denied Allow returns retry_after =
\* (1 - tokens) / refill_rate; under policy (5, 60s, 0) the requests of one IP
\* within a second get a 429 only after five admits, and the 429 carries
\* Retry-After of about 12 seconds (60/5) and X-RateLimit-Remaining 0.
C12_TimeToNextToken ==
    ~BackoffOn(backoffConfig) =>
        /\ \A p \in Ledgers :
              ledger[p[1]][p[2]].last.kind = "violation" =>
                  ledger[p[1]][p[2]].last.retryAfter =
                      TimeToOneToken(ledger[p[1]][p[2]].last.considered, config[p[1]])
        /\ \A g \in Goroutines :
              (response[g].status = 429 /\ clock <= 1) =>
                  /\ Len(ledger[1][LimiterKey(extractClientIP(request[g]), request[g].path)].admits) = 5
                  /\ response[g].header["X-RateLimit-Remaining"] = 0
                  /\ response[g].header["Retry-After"] \in
                         {[neg |-> FALSE, mag |-> BigFromNat(s)] : s \in {11, 12}}

\* the ceiling of a duration in whole seconds
CeilSeconds(d) ==
    LET q     == DurMagSeconds(d)
        exact == d.mag = BigTrim(BigShift(BigMulSmall(q, 10), 2))
    IN  [neg |-> d.neg /\ q # BigZero,
         mag |-> IF d.neg \/ exact THEN q ELSE BigTrim(BigMulCarry(q, 1, 1))]

\* the retry_after that the limiter returned for the request a goroutine served
Returned(g) ==
    LET k == LimiterKey(extractClientIP(request[g]), request[g].path)
    IN  {ledger[l][k].last.retryAfter :
            l \in {x \in getLimiterForPath(gw.limiters, DefaultLimiter, request[g].path) :
                      Has(ledger[x], k)}}

\* C13: on a 429 the Retry-After header and the body's retry_after_seconds are
\* the ceiling of the limiter's retry_after in whole seconds, so that the
\* advertised wait is never shorter than the remaining one.
C13_RetryAfterCeiling ==
    \A g \in Goroutines :
        response[g].status = 429 =>
            \E d \in Returned(g) :
                /\ response[g].header["Retry-After"] = CeilSeconds(d)
                /\ response[g].body.retry_after_seconds = CeilSeconds(d)

(***************************************************************************)
(* Properties of the choice of a limiter.                                  *)
(***************************************************************************)
\* the endpoint patterns in the order in which the configuration declares them
DeclaredOrder ==
    << <<"/", "rest", "/", "*">>, <<"/", "rest", "/", "user", "/", "*">>, OtpPath,
       <<"/", "rest", "/", "*", "/", "public">> >>

\* the limiter of the pattern equal to the path, else of the first declared
\* pattern that matches it, else the default limiter
FirstDeclared(limiters, requestPath) ==
    LET cleaned  == Clean(requestPath)
        matching == {i \in 1..Len(DeclaredOrder) :
                        /\ DeclaredOrder[i] \in DOMAIN limiters
                        /\ matchPattern(DeclaredOrder[i], cleaned)}
    IN  IF cleaned \in DOMAIN limiters THEN limiters[cleaned]
        ELSE IF matching # {}
        THEN limiters[DeclaredOrder[CHOOSE i \in matching : \A j \in matching : i <= j]]
        ELSE DefaultLimiter

\* C14: the limiter that serves a request is the one of the pattern equal to
\* its path, else of the first matching wildcard pattern in declared order, else
\* the default one: a function of the configuration and the path alone.
C14_LimiterChoice ==
    \A g \in Goroutines :
        (pc[g] \in {"lock", "allow", "limited"} /\ call[g].from = "mw") =>
            call[g].lim = FirstDeclared(gw.limiters, request[g].path)

(***************************************************************************)
(* Properties of the violation count.                                      *)
(***************************************************************************)
\* in this step an Allow on key k of limiter l returns a denial that it
\* decided outside a backoff period
DeniesOutsideBackoff(l, k) ==
    \E g \in Goroutines :
        /\ pc[g] = "allow" /\ pc'[g] # "allow"
        /\ call[g].lim = l /\ call[g].key = k
        /\ ~ret'[g].allowed
        /\ ~(BackoffOn(backoffConfig) /\ clock < held[g].BackoffUntil)

C16_ViolationsDecay ==
    [][\A l \in DOMAIN store : \A k \in DOMAIN store[l] :
          (/\ BackoffOn(backoffConfig)
           /\ store[l][k].Violations >= 1
           /\ clock >= store[l][k].BackoffUntil
           /\ DeniesOutsideBackoff(l, k)
           /\ k \in DOMAIN store'[l])
          => store'[l][k].Violations <= store[l][k].Violations]_vars

(***************************************************************************)
(* Properties of Reset and GetMetrics.                                     *)
(***************************************************************************)
\* C17: Reset(key) clears the bucket, whatever state the key was in: the key
\* has no bucket until it is used again, and the next Allow(key) is admitted and
\* leaves a bucket with violations = 0 and no backoff, as for a key never seen.
C17_ResetClears ==
    \A p \in Ledgers :
        LET lg == ledger[p[1]][p[2]]
        IN  lg.resetFrom # NoBucket =>
              /\ lg.last.kind = "reset" => ~Has(store[p[1]], p[2])
              /\ lg.last.kind \notin {"reset", "none"} => lg.admits # <<>>
              /\ (Len(lg.admits) = 1 /\ lg.last.kind = "admit") =>
                    /\ lg.last.violations = 0
                    /\ lg.last.backoffUntil = ZeroTime
                    /\ DurIsZero(lg.last.retryAfter)
                    /\ lg.last.considered.whole = config[p[1]].Requests

\* a drained key with two violations was reset inside its backoff period and
\* its next Allow, still inside that period, was admitted
C17_Witness ==
    \E p \in Ledgers :
        LET lg == ledger[p[1]][p[2]]
        IN  /\ lg.resetFrom # NoBucket
            /\ lg.resetFrom.Violations = 2
            /\ lg.resetFrom.Tokens.whole = 0
            /\ Len(lg.admits) = 1 /\ lg.last.kind = "admit"
            /\ lg.last.at < lg.resetFrom.BackoffUntil

\* floor(tokens) of a token count
Floor(t) == t.whole

\* C18: GetMetrics(key) returns remaining = floor(tokens), total = R,
\* reset_at = last_refill + window and the violations of the key's bucket; when
\* all that happened to the bucket are k <= R admits at the instant of its
\* creation, remaining = R - k.
C18_Metrics ==
    [][\A g \in Goroutines :
          (TakesCall(g) /\ calls' # calls /\ pc' = pc /\ ret'[g].op = "GetMetrics") =>
              LET l  == DefaultLimiter
                  k  == ret'[g].key
                  b  == store'[l][k]
                  lg == ledger'[l][k]
                  m  == ret'[g].metrics
              IN  /\ m.Remaining = Floor(b.Tokens)
                  /\ m.Total = config[l].Requests
                  /\ m.ResetAt = b.LastRefill + config[l].Window
                  /\ m.Violations = b.Violations
                  /\ (\/ lg.last.kind = "none"
                      \/ lg.instAt = lg.created /\ lg.instCalls = lg.instAdmits)
                        => m.Remaining = config[l].Requests - Len(lg.admits)]_vars

\* GetMetrics read a bucket that had admitted R = 2 calls at once: nothing remains
C18_Witness ==
    \E g \in Goroutines :
        /\ ret[g].op = "GetMetrics"
        /\ ret[g].metrics.Total = 2
        /\ ret[g].metrics.Remaining = 0
        /\ ret[g].metrics.Violations = 0
        /\ Len(ledger[DefaultLimiter][ret[g].key].admits) = 2

(***************************************************************************)
(* Properties of the auth middleware's rejections.                         *)
(***************************************************************************)
\* the header is "<scheme> <token>" with the scheme bearer in any case and a
\* token that is not empty; Cut is where the scheme ends
Cut(h) == IF Contains(h, " ") THEN Index(h, " ") ELSE Len(h) + 1
IsBearer(h) == Cut(h) < Len(h) /\ ToLower(SubSeq(h, 1, Cut(h) - 1)) = <<"bearer">>
BearerToken(h) == SubSeq(h, Cut(h) + 1, Len(h))

\* the instants the clock has shown so far
Instants == {t \in {j * Expiry + s : j \in 0..MaxJumps, s \in 0..ShortSpan} : t <= clock}

ValidatorMessage ==
    [e \in {"ErrExpiredToken", "ErrInvalidClaims", "ErrInvalidToken"} |->
        IF e = "ErrExpiredToken" THEN "token has expired"
        ELSE IF e = "ErrInvalidClaims" THEN "invalid token claims"
        ELSE "invalid token"]

\* C19: each cause of a rejection by the auth middleware has its own 401
\* message: no Authorization header; a header that is not "Bearer <token>" with
\* a non-empty token; the validator's ExpiredToken; its InvalidClaims; any other
\* error of the validator.
C19_AuthMessages ==
    \A g \in Served :
        LET rq == request[g]
            rs == response[g]
            h  == rq.authorization
        IN  (gw.authEnabled /\ Contains(rs.trace, "auth") /\ ~MatchesPublic(rq.path)) =>
              /\ h = EmptyString =>
                    rs.status = 401 /\ rs.body = [error |-> "missing authorization header"]
              /\ (h # EmptyString /\ ~IsBearer(h)) =>
                    /\ rs.status = 401
                    /\ rs.body = [error |-> "invalid authorization header format"]
              /\ IsBearer(h) =>
                    /\ \A e \in DOMAIN ValidatorMessage :
                          (\A t \in Instants : Validate(BearerToken(h), t) = e) =>
                              rs.status = 401 /\ rs.body = [error |-> ValidatorMessage[e]]
                    /\ rs.status = 401 =>
                          \E t \in Instants :
                              /\ Validate(BearerToken(h), t) \in DOMAIN ValidatorMessage
                              /\ rs.body = [error |-> ValidatorMessage[Validate(BearerToken(h), t)]]

\* one request was rejected for an expired token and one for its claims
C19_Witness ==
    \E g, h \in Served :
        /\ response[g].status = 401 /\ response[g].body = [error |-> "token has expired"]
        /\ response[h].status = 401 /\ response[h].body = [error |-> "invalid token claims"]

\* the token is signed by the gateway's secret with its method, names a user
\* and has no exp claim
SignedWithoutExp(tokenString) ==
    /\ Len(tokenString) = 1 /\ tokenString[1] \in DOMAIN DecodeJWT
    /\ DecodeJWT[tokenString[1]].alg = SigningMethod
    /\ DecodeJWT[tokenString[1]].signed
    /\ DecodeJWT[tokenString[1]].user_id # ""
    /\ DecodeJWT[tokenString[1]].exp = NoExp

\* C20: a correctly signed token with a non-empty user_id and no exp claim is
\* rejected by Validate with InvalidClaims: Validate does not panic, and the
\* request is answered 401 "invalid token claims".
C20_MissingExpRejected ==
    \A g \in Served :
        LET rq == request[g]
            rs == response[g]
        IN  (/\ gw.authEnabled /\ Contains(rs.trace, "Validate")
             /\ IsBearer(rq.authorization)
             /\ SignedWithoutExp(BearerToken(rq.authorization))) =>
              /\ \A t \in Instants : Validate(BearerToken(rq.authorization), t) = "ErrInvalidClaims"
              /\ ~Contains(rs.trace, "panic")
              /\ rs.status = 401
              /\ rs.body = [error |-> "invalid token claims"]

(***************************************************************************)
(* Properties of the token validator.                                      *)
(***************************************************************************)
\* in this step goroutine g has called Validate for the request it serves
ValidatesNow(g) ==
    /\ Contains(response'[g].trace, "Validate")
    /\ \/ TakesCall(g) /\ calls' # calls
       \/ pc[g] = "limited" /\ pc'[g] # "limited"

\* C21: whenever Validate returns claims, they have a non-empty user_id and an
\* expires_at that is not before the instant of the validation; no token with an
\* empty user_id or a past expiry yields claims.
C21_ClaimsValid ==
    [][\A g \in Goroutines :
          (ValidatesNow(g) /\ Contains(response'[g].trace, "claims")) =>
              LET t == DecodeJWT[BearerToken(request'[g].authorization)[1]]
              IN  /\ t.user_id # ""
                  /\ t.exp >= clock
                  /\ response'[g].metadata["user-id"] = <<t.user_id>>]_vars

\* the token that expires at second 1 was validated before and yielded claims
C21_Witness ==
    \E g \in Served :
        /\ Contains(response[g].trace, "claims")
        /\ BearerToken(request[g].authorization) = <<"jwt.expiring">>

\* the response is the 401 of the auth middleware with this message
Rejected(rs, message) == rs.status = 401 /\ rs.body = [error |-> message]

\* C22: Validate fails with exactly one of three errors: InvalidToken for a token
\* that is malformed, has a bad signature or an alg other than the configured
\* one; ExpiredToken for a well-signed token whose exp is in the past;
\* InvalidClaims for a well-signed, unexpired token without user_id.  (The
\* middleware answers them "invalid token", "token has expired" and "invalid
\* token claims".)
C22_ErrorKinds ==
    [][\A g \in Goroutines :
          ValidatesNow(g) =>
              LET tok == BearerToken(request'[g].authorization)
                  rs  == response'[g]
                  t   == DecodeJWT[tok[1]]
              IN  IF ~(Len(tok) = 1 /\ tok[1] \in DOMAIN DecodeJWT)
                  THEN Rejected(rs, "invalid token")
                  ELSE IF t.alg # SigningMethod \/ ~t.signed
                  THEN Rejected(rs, "invalid token")
                  ELSE IF t.exp # NoExp /\ t.exp < clock
                  THEN Rejected(rs, "token has expired")
                  ELSE IF t.exp # NoExp /\ t.exp > clock /\ t.user_id = ""
                  THEN Rejected(rs, "invalid token claims")
                  ELSE \/ Contains(rs.trace, "claims")
                       \/ \E e \in DOMAIN ValidatorMessage : Rejected(rs, ValidatorMessage[e])]_vars

\* the values of key k in metadata md (MD.Get)
Get(md, k) == IF k \in DOMAIN md THEN md[k] ELSE <<>>

\* sequence a is the beginning of sequence b
Prefix(a, b) == Len(a) <= Len(b) /\ \A i \in 1..Len(a) : b[i] = a[i]

\* C23: after a successful validation the context handed to the next handler
\* carries user-id = claims.user_id and user-mobile = claims.mobile in its
\* outgoing metadata, and every key and value that was there before is still
\* there (merged, not replaced).
C23_ForwardClaims ==
    \A g \in Goroutines :
        Contains(response[g].trace, "claims") =>
            LET t  == DecodeJWT[BearerToken(request[g].authorization)[1]]
                md == response[g].metadata
            IN  /\ \E i \in DOMAIN Get(md, "user-id") : md["user-id"][i] = t.user_id
                /\ \E i \in DOMAIN Get(md, "user-mobile") : md["user-mobile"][i] = t.mobile
                /\ \A k \in DOMAIN request[g].outgoing : Prefix(request[g].outgoing[k], Get(md, k))
                /\ Contains(response[g].trace, "handler")

C23_Witness ==
    \E g \in Goroutines :
        /\ Contains(response[g].trace, "claims")
        /\ "user-id" \in DOMAIN request[g].outgoing
        /\ response[g].metadata["user-id"] = <<"u0", "u1">>

\* the slash-delimited segments of a rooted path after normalization: doubled
\* slashes collapsed and a trailing slash stripped, except for the root, whose
\* one segment is empty
NormalSegments(p) ==
    LET named == SelectSeq(Split(p, "/"), LAMBDA e : e # <<>>)
    IN  IF named = <<>> THEN << <<>>, <<>> >> ELSE << <<>> >> \o named

\* what matching is to be: segment by segment, "*" standing for one segment,
\* and for all that follows when it is the pattern's last segment
Matches(pattern, requestPath) ==
    IF ~Contains(pattern, "*") THEN pattern = requestPath
    ELSE LET ps == NormalSegments(pattern)
             qs == NormalSegments(requestPath)
             n  == Len(ps)
         IN  IF ps[n] = Star
             THEN Len(qs) >= n /\ \A i \in 1..(n - 1) : ps[i] = Star \/ ps[i] = qs[i]
             ELSE Len(qs) = n /\ \A i \in 1..n : ps[i] = Star \/ ps[i] = qs[i]

\* the auth middleware let the request of g pass as one for a public route
PassedAsPublic(g) ==
    Contains(response[g].trace, "auth.next") /\ ~Contains(response[g].trace, "Validate")

\* C24: a request passes as public iff some configured pattern matches its path,
\* where a pattern ending in "*" matches the paths that have its preceding
\* segments and at least one more, an interior "*" matches exactly one
\* segment, a path with fewer segments than the pattern does not match, and a
\* pattern without "*" matches the equal path only; no pattern, nothing public.
C24_PublicMatching ==
    \A g \in Goroutines :
        Contains(response[g].trace, "auth") =>
            (PassedAsPublic(g) <=>
                \E i \in 1..Len(gw.publicRoutes) : Matches(gw.publicRoutes[i], request[g].path))

C24_Witness ==
    \E g \in Goroutines :
        /\ gw.publicRoutes = << <<"/", "a", "/", "*", "/", "b">> >>
        /\ request[g].path = <<"/", "a", "/", "a", "/", "b">>
        /\ PassedAsPublic(g)

\* normalize: collapse doubled slashes and strip a trailing slash
Normalize(p) == Join(NormalSegments(p), "/")

\* C25: matching is invariant under normalization of pattern and path,
\* match(P, Q) = match(normalize(P), normalize(Q)), also for a pattern
\* without "*" (pattern /a against path /a/).
C25_NormalizationInvariant ==
    \A g \in Goroutines :
        (Contains(response[g].trace, "auth") /\ Len(gw.publicRoutes) = 1) =>
            (PassedAsPublic(g) <=>
                RouteMatchPattern(Normalize(gw.publicRoutes[1]), Normalize(request[g].path)))

\* C26: no data race on bucket fields: every read or write of a bucket's fields
\* by Allow, GetMetrics or the sweeper is made under one common lock, so the
\* sweeper never reads LastRefill of a bucket while an Allow, holding the
\* limiter's lock, is writing it.
C26_NoRace ==
    [][\A l \in DOMAIN store :
          nextTick'[l] # nextTick[l] =>
              \A g \in Goroutines :
                  ~(pc[g] = "allow" /\ mu[l] = g /\ call[g].key \in DOMAIN store[l])]_vars

\* C27: after Stop on a limiter the sweeper loop terminates eventually (the
\* sweeper goroutine being scheduled fairly), and once it has terminated it
\* removes no bucket: a bucket leaves the store only by a caller's Reset.
C27_SweeperStops ==
    /\ stopChan[DefaultLimiter] ~> (sweeper[DefaultLimiter] = "exited")
    /\ [][sweeper[DefaultLimiter] = "exited" =>
             /\ sweeper'[DefaultLimiter] = "exited"
             /\ nextTick' = nextTick
             /\ \A k \in DOMAIN store[DefaultLimiter] \ DOMAIN store'[DefaultLimiter] :
                    calls' # calls /\ \E g \in Goroutines : ret'[g].op = "Reset"]_vars

C27_Witness ==
    /\ stopChan[DefaultLimiter]
    /\ sweeper[DefaultLimiter] = "exited"
    /\ clock >= nextTick[DefaultLimiter]
    /\ ExpiredKeys(store[DefaultLimiter], clock) # {}

\* C28: on shutdown the sweeper of every limiter made at startup is stopped
\* before the process exits: when the shutdown hook has returned no sweeper is
\* still running.
C28_SweepersStopped ==
    gw.phase = "stopped" => \A l \in DOMAIN sweeper : sweeper[l] # "running"

\* C29: the listener accepts requests only after the translators are registered
\* and the rate limit and auth middlewares are attached: no request for /rest/
\* reaches its handler without having passed every enabled middleware.
C29_MiddlewaresFirst ==
    \A g \in Goroutines :
        (Contains(response[g].trace, "handler") /\ response[g].status = 200) =>
            /\ gw.rlEnabled => Contains(response[g].trace, "ratelimit")
            /\ gw.authEnabled => Contains(response[g].trace, "auth")

\* the request of g is for path /docs/{s}/ followed by the symbols rest
DocsPath(g, rest) ==
    /\ Len(request[g].path) = 5 + Len(rest)
    /\ SubSeq(request[g].path, 1, 3) = <<"/", "docs", "/">>
    /\ request[g].path[5] = "/"
    /\ SubSeq(request[g].path, 6, Len(request[g].path)) = rest

\* the request of g was sent upstream with this path
SentUpstream(g, upstreamPath) ==
    Contains(response[g].trace, "upstream") /\ response[g].body = [path |-> upstreamPath]

\* C30: for a configured service s every request under /docs/{s}/swagger-ui,
\* with or without a sub-path, reaches the upstream with path
\* /docs/swagger-ui/, and /docs/{s}/swagger.json reaches it with path
\* /docs/{s}.swagger.json; for a service that is not configured both answer
\* 404 and no upstream is contacted.
C30_DocsRewrite ==
    \A g \in Goroutines :
        LET s == request[g].path[4]
            underUI == \E rest \in {<<"swagger-ui">>, <<"swagger-ui", "/">>,
                                    <<"swagger-ui", "/", "index.html">>,
                                    <<"swagger-ui", "/", "css", "/", "a.css">>} : DocsPath(g, rest)
            json == DocsPath(g, <<"swagger.json">>)
        IN  /\ (underUI /\ s \in DocsServices) =>
                   SentUpstream(g, <<"/", "docs", "/", "swagger-ui", "/">>)
            /\ (json /\ s \in DocsServices) =>
                   SentUpstream(g, <<"/", "docs", "/", s, ".swagger.json">>)
            /\ ((underUI \/ json) /\ s \notin DocsServices) =>
                   response[g].status = 404 /\ ~Contains(response[g].trace, "upstream")

\* C31: a rate limit duration that does not parse at startup (the default
\* window, an endpoint's window, the backoff base or max) is fatal: the
\* gateway never gets past startup with an endpoint policy dropped, its paths
\* left to another limiter.
C31_ParseFailureFatal ==
    (gw.rlEnabled /\ gw.phase \in {"limited", "started", "stopped"}) =>
        /\ ParseDuration(gw.raw.default).ok
        /\ gw.raw.backoff.enabled =>
               ParseDuration(gw.raw.backoff.base).ok /\ ParseDuration(gw.raw.backoff.max).ok
        /\ \A pat \in DOMAIN gw.raw.endpoints :
               /\ ParseDuration(gw.raw.endpoints[pat]).ok
               /\ pat \in DOMAIN gw.limiters

\* C32: with backoff enabled, an Allow that runs while now < backoff_until is
\* denied with retry_after = backoff_until - now and changes no bucket; of two
\* such denials in one backoff period the later one returns the smaller retry_after
C32_BackoffDenialFrame ==
    [][\A g \in Goroutines :
          (/\ pc[g] = "allow" /\ pc'[g] # "allow"
           /\ BackoffOn(backoffConfig) /\ clock < held[g].BackoffUntil) =>
              LET lg == ledger[call[g].lim][call[g].key]
              IN  /\ store' = store
                  /\ ~ret'[g].allowed
                  /\ ret'[g].retryAfter = DurSeconds(held[g].BackoffUntil - clock)
                  /\ (/\ lg.last.kind = "backoff"
                      /\ lg.last.backoffUntil = held[g].BackoffUntil
                      /\ lg.last.at < clock) =>
                         BigLess(ret'[g].retryAfter.mag, lg.last.retryAfter.mag)]_vars

C32_Witness ==
    /\ BackoffOn(backoffConfig)
    /\ \E p \in Ledgers :
          LET lg == ledger[p[1]][p[2]]
          IN  /\ lg.last.kind = "backoff" /\ lg.consecDenies = 3
              /\ lg.last.at = 1 /\ lg.last.backoffUntil = 2 * Expiry
              /\ lg.last.retryAfter = DurSeconds(2 * Expiry - 1)
              /\ lg.last.unchanged /\ ~lg.last.stored

RECURSIVE CappedPenalty(_, _)
\* min(base * multiplier^(v-1), max) in seconds, for a multiplier of at least 1
CappedPenalty(bc, v) ==
    IF v <= 1 THEN Minimum(bc.BaseDuration, bc.MaxDuration)
    ELSE Minimum(CappedPenalty(bc, v - 1) * bc.Multiplier, bc.MaxDuration)

\* C33: with backoff enabled, an Allow that finds less than one token outside a
\* backoff period raises violations to v, sets backoff_until to
\* now + min(base * multiplier^(v-1), max) and returns that penalty as retry_after
C33_PenaltyFormula ==
    BackoffOn(backoffConfig) =>
        \A p \in Ledgers :
            LET lg == ledger[p[1]][p[2]]
                penalty == CappedPenalty(backoffConfig, lg.last.violations)
            IN  lg.last.kind = "violation" =>
                    /\ lg.last.violations >= 1
                    /\ lg.last.backoffUntil = lg.last.at + penalty
                    /\ lg.last.retryAfter = DurSeconds(penalty)
                    /\ ~lg.last.retryAfter.neg
                    /\ ~BigLess(DurSeconds(backoffConfig.MaxDuration).mag, lg.last.retryAfter.mag)

\* the number of admits of the history lg made at the instant t
AdmitsAt(lg, t) == Cardinality({i \in DOMAIN lg.admits : lg.admits[i] = t})

C36_SameMatcher ==
    \A g \in Goroutines :
        (pc[g] \in {"lock", "allow", "limited"} /\ call[g].from = "mw") =>
            \A pat \in DOMAIN gw.limiters :
                (/\ gw.limiters[pat] = call[g].lim
                 /\ Clean(request[g].path) \notin DOMAIN gw.limiters) =>
                    RouteMatchPattern(pat, request[g].path)

\* C37: the validator is called iff the Authorization value is "<scheme> <rest>"
\* with the scheme bearer in any case and a rest that is not empty; every other
\* value is answered 401 "invalid authorization header format"
C37_BearerExtraction ==
    \A g \in Goroutines :
        LET h == request[g].authorization
        IN  (Contains(response[g].trace, "auth") /\ ~PassedAsPublic(g) /\ h # EmptyString) =>
                /\ Contains(response[g].trace, "Validate") <=>
                       /\ Contains(h, " ")
                       /\ ToLower(SubSeq(h, 1, Index(h, " ") - 1)) = <<"bearer">>
                       /\ SubSeq(h, Index(h, " ") + 1, Len(h)) # EmptyString
                /\ ~Contains(response[g].trace, "Validate") =>
                       Rejected(response[g], "invalid authorization header format")

C37_Witness ==
    \E g \in Goroutines :
        /\ request[g].authorization = <<"Bearer", " ">>
        /\ ~Contains(response[g].trace, "Validate")
        /\ Rejected(response[g], "invalid authorization header format")

\* C38: Allow(key) reads and writes the bucket of its key only: the step that
\* takes the bucket and the step that decides leave the bucket of every other
\* key as it was, and the decision is taken from the contents of the key's bucket
C38_AllowOwnBucket ==
    [][\A g \in Goroutines :
          (pc[g] \in {"lock", "allow"} /\ pc'[g] # pc[g]) =>
              /\ \A l \in DOMAIN store :
                    \A k \in DOMAIN store[l] \cup DOMAIN store'[l] :
                        (l # call[g].lim \/ k # call[g].key) =>
                            /\ k \in DOMAIN store[l] /\ k \in DOMAIN store'[l]
                            /\ store'[l][k] = store[l][k]
              /\ (pc[g] = "allow" /\ Has(store[call[g].lim], call[g].key)) =>
                    held[g] = store[call[g].lim][call[g].key]]_vars

C38_Witness ==
    /\ DOMAIN store[DefaultLimiter] = TestKeys
    /\ ledger[DefaultLimiter][<<"k", "2">>].last.kind = "admit"
    /\ ledger[DefaultLimiter][<<"k", "2">>].overlap = FALSE
    /\ ledger[DefaultLimiter][<<"k", "1">>].last.kind = "backoff"
    /\ store[DefaultLimiter][<<"k", "1">>].Violations = 1

\* C39: a sweep never removes a bucket whose backoff period is still active
\* (backoff_until > now)
C39_SweepSparesBlocked ==
    [][\A l \in DOMAIN nextTick :
          (nextTick'[l] # nextTick[l] /\ BackoffOn(backoffConfig)) =>
              \A k \in DOMAIN store[l] :
                  store[l][k].BackoffUntil > clock => k \in DOMAIN store'[l]]_vars

\* C40: GetMetrics(key) creates, changes and deletes no bucket: the store is
\* the same before and after the call
C40_GetMetricsReadOnly ==
    [][\A g \in Goroutines :
          (ret'[g] # ret[g] /\ ret'[g].op = "GetMetrics") => store' = store]_vars

====
